---------------------------- MODULE Spec2Model ----------------------------
(***************************************************************************)
(* A model of the artlinks-data scripts: the master-table merge            *)
(* (scripts/merge_csv.py), the de-duplicators of the Sketchboard and Case   *)
(* for Making scrapers, and the date extractor of                           *)
(* scripts/fetch_sketchboard_drinkdraw.py.                                  *)
(*                                                                         *)
(* Python str values are TLA+ strings.  The str methods the scripts use     *)
(* (lower, strip, comparison, "in", int(), zero padded formatting) are      *)
(* computed character by character over the printable ASCII range.          *)
(***************************************************************************)
EXTENDS Integers, Sequences, FiniteSets, TLC

\* F applied to the value of e: e is evaluated once, whatever F does with it.
Bind(e, F(_)) == CHOOSE v \in { F(x) : x \in {e} } : TRUE

(***************************************************************************)
(* Python str operations                                                   *)
(***************************************************************************)

\* Printable ASCII in two runs: code points 32 (space) to 95, and 97 to 126.
\* (Code point 96, the grave accent, occurs in no text of the scripts.)
AsciiLow == " !\"#$%&'()*+,-./0123456789:;<=>?@ABCDEFGHIJKLMNOPQRSTUVWXYZ[\\]^_"

AsciiHigh == "abcdefghijklmnopqrstuvwxyz{|}~"

CharAt(s, i) == SubSeq(s, i, i)

AsciiChars ==
  { CharAt(AsciiLow, i) : i \in 1..Len(AsciiLow) } \cup { CharAt(AsciiHigh, i) : i \in 1..Len(AsciiHigh) }

\* ord(c)
Ord ==
  [ c \in AsciiChars |->
      IF \E i \in 1..Len(AsciiLow) : CharAt(AsciiLow, i) = c
      THEN 31 + (CHOOSE i \in 1..Len(AsciiLow) : CharAt(AsciiLow, i) = c)
      ELSE 96 + (CHOOSE i \in 1..Len(AsciiHigh) : CharAt(AsciiHigh, i) = c) ]

\* chr(n)
Chr(n) == IF n <= 95 THEN CharAt(AsciiLow, n - 31) ELSE CharAt(AsciiHigh, n - 96)

IsUpper(c) == Ord[c] >= Ord["A"] /\ Ord[c] <= Ord["Z"]

IsLetter(c) == IsUpper(c) \/ (Ord[c] >= Ord["a"] /\ Ord[c] <= Ord["z"])

IsLowerLetter(c) == Ord[c] >= Ord["a"] /\ Ord[c] <= Ord["z"]

IsDigit(c) == Ord[c] >= Ord["0"] /\ Ord[c] <= Ord["9"]

\* The only whitespace of the modelled texts is the space.
IsSpace(c) == c = " "

LowerChar(c) == IF IsUpper(c) THEN Chr(Ord[c] + 32) ELSE c

Rest(s) == SubSeq(s, 2, Len(s))

RECURSIVE Lower(_)
\* s.lower()
Lower(s) == IF s = "" THEN "" ELSE LowerChar(CharAt(s, 1)) \o Lower(Rest(s))

RECURSIVE LStrip(_)
LStrip(s) == IF s # "" /\ IsSpace(CharAt(s, 1)) THEN LStrip(Rest(s)) ELSE s

RECURSIVE RStrip(_)
RStrip(s) ==
  IF s # "" /\ IsSpace(CharAt(s, Len(s))) THEN RStrip(SubSeq(s, 1, Len(s) - 1)) ELSE s

\* s.strip()
Strip(s) == RStrip(LStrip(s))

\* sub in s
Contains(sub, s) ==
  \E i \in 1..(Len(s) - Len(sub) + 1) : SubSeq(s, i, i + Len(sub) - 1) = sub

RECURSIVE StrLess(_, _)
\* a < b on str: by code point, a proper prefix first
StrLess(a, b) ==
  IF b = "" THEN FALSE
  ELSE IF a = "" THEN TRUE
  ELSE IF CharAt(a, 1) = CharAt(b, 1) THEN StrLess(Rest(a), Rest(b))
  ELSE Ord[CharAt(a, 1)] < Ord[CharAt(b, 1)]

RECURSIVE TupleLess(_, _)
\* a < b on tuples of str of the same length
TupleLess(a, b) ==
  IF a = <<>> THEN FALSE
  ELSE IF a[1] = b[1] THEN TupleLess(Tail(a), Tail(b))
  ELSE StrLess(a[1], b[1])

IsDigits(s) == s # "" /\ \A i \in 1..Len(s) : IsDigit(CharAt(s, i))

RECURSIVE ParseInt(_)
\* int(s) for a str of decimal digits
ParseInt(s) ==
  IF s = "" THEN 0
  ELSE 10 * ParseInt(SubSeq(s, 1, Len(s) - 1)) + (Ord[CharAt(s, Len(s))] - Ord["0"])

RECURSIVE Decimal(_)
Decimal(n) == IF n < 10 THEN Chr(Ord["0"] + n) ELSE Decimal(n \div 10) \o Chr(Ord["0"] + (n % 10))

RECURSIVE PadLeft(_, _)
PadLeft(s, w) == IF Len(s) >= w THEN s ELSE PadLeft("0" \o s, w)

\* f"{n:0wd}" for n >= 0
FormatInt(n, w) == PadLeft(Decimal(n), w)


(***************************************************************************)
(* Stable sort, as list.sort: a sequence of <<key tuple, item>> pairs is    *)
(* ordered by key, items of equal key keeping their order.                  *)
(***************************************************************************)

Front(s) == SubSeq(s, 1, Len(s) - 1)

Last(s) == s[Len(s)]

RECURSIVE InsertSorted(_, _)
InsertSorted(sorted, p) ==
  IF sorted = <<>> THEN <<p>>
  ELSE IF TupleLess(p[1], Last(sorted)[1])
       THEN Append(InsertSorted(Front(sorted), p), Last(sorted))
       ELSE Append(sorted, p)

RECURSIVE StableSort(_)
StableSort(ps) ==
  IF ps = <<>> THEN <<>>
  ELSE Bind(StableSort(Front(ps)), LAMBDA sorted : InsertSorted(sorted, Last(ps)))

Items(ps) == [ i \in 1..Len(ps) |-> ps[i][2] ]

(***************************************************************************)
(* fetch_sketchboard_drinkdraw.py: time ranges                             *)
(***************************************************************************)

\* \w of the re module, on ASCII
IsWordChar(c) == IsLetter(c) \/ IsDigit(c) \/ c = "_"

\* \b at the gap before position i of t (i in 1..Len(t)+1)
WordBoundary(t, i) ==
  LET before == i > 1 /\ IsWordChar(CharAt(t, i - 1))
      after  == i <= Len(t) /\ IsWordChar(CharAt(t, i))
  IN  before # after

RECURSIVE SkipSpaces(_, _)
\* \s* from position i: the position of the first non-space at or after i
SkipSpaces(t, i) == IF i <= Len(t) /\ IsSpace(CharAt(t, i)) THEN SkipSpaces(t, i + 1) ELSE i

\* (\d{1,2}:\d{2}) at position i: the number of hour digits, 0 when it does not match
ClockDigits(t, i) ==
  LET ok(n) == /\ i + n + 2 <= Len(t)
               /\ IsDigits(SubSeq(t, i, i + n - 1))
               /\ CharAt(t, i + n) = ":"
               /\ IsDigits(SubSeq(t, i + n + 1, i + n + 2))
  IN  IF ok(2) THEN 2 ELSE IF ok(1) THEN 1 ELSE 0

\* [AP]M with re.I at position i
IsMeridiem(t, i) ==
  i + 1 <= Len(t) /\ Lower(CharAt(t, i)) \in {"a", "p"} /\ Lower(CharAt(t, i + 1)) = "m"

NoTimes == <<"", "">>

\* to_24h(hhmm, ampm)
to_24h(hhmm, ampm) ==
  Bind(CHOOSE i \in 1..Len(hhmm) : CharAt(hhmm, i) = ":", LAMBDA colon :
    Bind(ParseInt(SubSeq(hhmm, 1, colon - 1)), LAMBDA h0 :
      Bind(Lower(Strip(ampm)), LAMBDA ap :
        Bind(IF ap = "pm" /\ h0 # 12 THEN h0 + 12 ELSE h0, LAMBDA h1 :
          FormatInt(IF ap = "am" /\ h1 = 12 THEN 0 ELSE h1, 2) \o ":"
            \o FormatInt(ParseInt(SubSeq(hhmm, colon + 1, Len(hhmm))), 2)))))

\* The 24 hour pattern \b(\d{1,2}:\d{2})\s*[-]\s*(\d{1,2}:\d{2})\b matched at
\* position i: the two groups, or NoTimes.  (The en dash of the character
\* class is outside the ASCII texts modelled.)
Range24At(t, i) ==
  Bind(ClockDigits(t, i), LAMBDA n1 :
    IF ~WordBoundary(t, i) \/ n1 = 0 THEN NoTimes
    ELSE Bind(SkipSpaces(t, i + n1 + 3), LAMBDA d :
      IF d > Len(t) \/ CharAt(t, d) # "-" THEN NoTimes
      ELSE Bind(SkipSpaces(t, d + 1), LAMBDA s2 :
        Bind(ClockDigits(t, s2), LAMBDA n2 :
          IF n2 > 0 /\ WordBoundary(t, s2 + n2 + 3)
          THEN <<SubSeq(t, i, i + n1 + 2), SubSeq(t, s2, s2 + n2 + 2)>>
          ELSE NoTimes))))

\* The 12 hour pattern
\* \b(\d{1,2}:\d{2})\s*([AP]M)\s*[-]?\s*(\d{1,2}:\d{2})\s*([AP]M)\b matched at
\* position i, converted by to_24h, or NoTimes.
Range12At(t, i) ==
  Bind(ClockDigits(t, i), LAMBDA n1 :
    IF ~WordBoundary(t, i) \/ n1 = 0 THEN NoTimes
    ELSE Bind(SkipSpaces(t, i + n1 + 3), LAMBDA a1 :
      IF ~IsMeridiem(t, a1) THEN NoTimes
      ELSE Bind(SkipSpaces(t, a1 + 2), LAMBDA d :
        Bind(IF d <= Len(t) /\ CharAt(t, d) = "-" THEN SkipSpaces(t, d + 1) ELSE d, LAMBDA s2 :
          Bind(ClockDigits(t, s2), LAMBDA n2 :
            IF n2 = 0 THEN NoTimes
            ELSE Bind(SkipSpaces(t, s2 + n2 + 3), LAMBDA a2 :
              IF IsMeridiem(t, a2) /\ WordBoundary(t, a2 + 2)
              THEN <<to_24h(SubSeq(t, i, i + n1 + 2), SubSeq(t, a1, a1 + 1)),
                     to_24h(SubSeq(t, s2, s2 + n2 + 2), SubSeq(t, a2, a2 + 1))>>
              ELSE NoTimes))))))

RECURSIVE Search24(_, _)
\* re.search of the 24 hour pattern from position i on: the leftmost match
Search24(t, i) ==
  IF i > Len(t) THEN NoTimes
  ELSE Bind(Range24At(t, i), LAMBDA r : IF r # NoTimes THEN r ELSE Search24(t, i + 1))

RECURSIVE Search12(_, _)
\* re.search of the 12 hour pattern from position i on: the leftmost match
Search12(t, i) ==
  IF i > Len(t) THEN NoTimes
  ELSE Bind(Range12At(t, i), LAMBDA r : IF r # NoTimes THEN r ELSE Search12(t, i + 1))

\* parse_time_range_any(text), text already single spaced: the 24 hour
\* pattern is tried first, then the 12 hour pattern.
parse_time_range_any(t) ==
  Bind(Search24(t, 1), LAMBDA r : IF r # NoTimes THEN r ELSE Search12(t, 1))

(***************************************************************************)
(* fetch_sketchboard_drinkdraw.py: dates                                   *)
(***************************************************************************)

\* The keys of MONTHS, in the order of their values 1..12
MONTHS ==
  <<"january", "february", "march", "april", "may", "june", "july", "august",
    "september", "october", "november", "december">>

\* The keys of MONTHS_ABBR, in the order of their values 1..12
MONTHS_ABBR == [ i \in 1..Len(MONTHS) |-> SubSeq(MONTHS[i], 1, 3) ]

\* s[:n]
Prefix(s, n) == SubSeq(s, 1, IF Len(s) < n THEN Len(s) ELSE n)

\* MONTHS.get(mon) or MONTHS_ABBR.get(mon[:3]), 0 standing for None
MonthNumber(mon) ==
  IF \E i \in 1..Len(MONTHS) : MONTHS[i] = mon
  THEN CHOOSE i \in 1..Len(MONTHS) : MONTHS[i] = mon
  ELSE IF \E i \in 1..Len(MONTHS) : MONTHS_ABBR[i] = Prefix(mon, 3)
       THEN CHOOSE i \in 1..Len(MONTHS) : MONTHS_ABBR[i] = Prefix(mon, 3)
       ELSE 0

\* normalize_iso(y, m, d) written without the zero padding of its format
normalize_iso_unpadded(y, m, d) == Decimal(y) \o "-" \o Decimal(m) \o "-" \o Decimal(d)

\* normalize_iso(y, m, d)
normalize_iso(y, m, d) == FormatInt(y, 4) \o "-" \o FormatInt(m, 2) \o "-" \o FormatInt(d, 2)

RECURSIVE SquashSpaces(_)
SquashSpaces(s) ==
  IF Len(s) < 2 THEN s
  ELSE IF IsSpace(CharAt(s, 1)) /\ IsSpace(CharAt(s, 2)) THEN SquashSpaces(Rest(s))
  ELSE CharAt(s, 1) \o SquashSpaces(Rest(s))

\* " ".join(text.split())
SingleSpaced(text) == Strip(SquashSpaces(text))

\* The proleptic Gregorian calendar of datetime.date
IsLeap(y) == y % 4 = 0 /\ (y % 100 # 0 \/ y % 400 = 0)

DaysInMonth(y, m) ==
  IF m = 2 THEN (IF IsLeap(y) THEN 29 ELSE 28)
  ELSE IF m \in {4, 6, 9, 11} THEN 30 ELSE 31

RECURSIVE DaysBeforeMonth(_, _)
DaysBeforeMonth(y, m) == IF m <= 1 THEN 0 ELSE DaysBeforeMonth(y, m - 1) + DaysInMonth(y, m - 1)

DaysBeforeYear(y) == (y - 1) * 365 + (y - 1) \div 4 - (y - 1) \div 100 + (y - 1) \div 400

\* date(y, m, d) raises ValueError unless this holds
ValidDate(y, m, d) == y >= 1 /\ y <= 9999 /\ m >= 1 /\ m <= 12 /\ d >= 1 /\ d <= DaysInMonth(y, m)

\* date.toordinal()
ToOrdinal(d) == DaysBeforeYear(d.year) + DaysBeforeMonth(d.year, d.month) + d.day

\* (a - b).days
DaysBetween(a, b) == ToOrdinal(a) - ToOrdinal(b)

\* A regular expression that did not match
NoMatch == <<>>

IsLetterAt(t, i) == i <= Len(t) /\ IsLetter(CharAt(t, i))

IsDigitAt(t, i) == i <= Len(t) /\ IsDigit(CharAt(t, i))

RECURSIVE LettersEnd(_, _)
\* [A-Za-z]* from position i: the position after the run
LettersEnd(t, i) == IF IsLetterAt(t, i) THEN LettersEnd(t, i + 1) ELSE i

RECURSIVE LowerLettersEnd(_, _)
\* [a-z]* from position i: the position after the run
LowerLettersEnd(t, i) ==
  IF i <= Len(t) /\ IsLowerLetter(CharAt(t, i)) THEN LowerLettersEnd(t, i + 1) ELSE i

\* (\d{1,2}), at position i: the number of digits taken, 0 when it does not match
DayCommaDigits(t, i) ==
  IF IsDigitAt(t, i) /\ IsDigitAt(t, i + 1) /\ i + 2 <= Len(t) /\ CharAt(t, i + 2) = "," THEN 2
  ELSE IF IsDigitAt(t, i) /\ i + 1 <= Len(t) /\ CharAt(t, i + 1) = "," THEN 1
  ELSE 0

\* (\d{1,2})\b at position i: the number of digits taken, 0 when it does not match
DayBoundaryDigits(t, i) ==
  IF IsDigitAt(t, i) /\ IsDigitAt(t, i + 1) /\ WordBoundary(t, i + 2) THEN 2
  ELSE IF IsDigitAt(t, i) /\ WordBoundary(t, i + 1) THEN 1
  ELSE 0

\* (20\d{2})\b at position i
YearAt(t, i) ==
  /\ i + 3 <= Len(t)
  /\ SubSeq(t, i, i + 1) = "20"
  /\ IsDigits(SubSeq(t, i + 2, i + 3))
  /\ WordBoundary(t, i + 4)

\* \b(20\d{2})-(\d{2})-(\d{2})\b at position i: its three groups, or NoMatch
IsoAt(t, i) ==
  IF /\ WordBoundary(t, i)
     /\ i + 9 <= Len(t)
     /\ SubSeq(t, i, i + 1) = "20"
     /\ IsDigits(SubSeq(t, i + 2, i + 3))
     /\ CharAt(t, i + 4) = "-"
     /\ IsDigits(SubSeq(t, i + 5, i + 6))
     /\ CharAt(t, i + 7) = "-"
     /\ IsDigits(SubSeq(t, i + 8, i + 9))
     /\ WordBoundary(t, i + 10)
  THEN <<SubSeq(t, i, i + 3), SubSeq(t, i + 5, i + 6), SubSeq(t, i + 8, i + 9)>>
  ELSE NoMatch

\* ([A-Za-z]+)\s+(\d{1,2}),\s+(20\d{2})\b at position i: its three groups, or NoMatch
MonthDayYearFrom(t, i) ==
  Bind(LettersEnd(t, i), LAMBDA e :
    Bind(SkipSpaces(t, e), LAMBDA d :
      Bind(DayCommaDigits(t, d), LAMBDA n :
        Bind(SkipSpaces(t, d + n + 1), LAMBDA y :
          IF e > i /\ d > e /\ n > 0 /\ y > d + n + 1 /\ YearAt(t, y)
          THEN <<SubSeq(t, i, e - 1), SubSeq(t, d, d + n - 1), SubSeq(t, y, y + 3)>>
          ELSE NoMatch))))

\* \b([A-Za-z]+)\s+(\d{1,2}),\s+(20\d{2})\b at position i
MonthDayYearAt(t, i) == IF WordBoundary(t, i) THEN MonthDayYearFrom(t, i) ELSE NoMatch

Weekdays == {"Mon", "Tue", "Wed", "Thu", "Fri", "Sat", "Sun"}

\* \b(?:Mon|Tue|Wed|Thu|Fri|Sat|Sun)[a-z]*,\s+([A-Za-z]+)\s+(\d{1,2}),\s+(20\d{2})\b
\* at position i: its three groups, or NoMatch
WeekdayAt(t, i) ==
  IF WordBoundary(t, i) /\ i + 2 <= Len(t) /\ SubSeq(t, i, i + 2) \in Weekdays
  THEN Bind(LowerLettersEnd(t, i + 3), LAMBDA c :
         Bind(SkipSpaces(t, c + 1), LAMBDA s :
           IF c <= Len(t) /\ CharAt(t, c) = "," /\ s > c + 1
           THEN MonthDayYearFrom(t, s)
           ELSE NoMatch))
  ELSE NoMatch

\* \b([A-Za-z]+)\s+(\d{1,2})\b at position i: its two groups, or NoMatch
MonthDayAt(t, i) ==
  IF ~WordBoundary(t, i) THEN NoMatch
  ELSE Bind(LettersEnd(t, i), LAMBDA e :
         Bind(SkipSpaces(t, e), LAMBDA d :
           Bind(DayBoundaryDigits(t, d), LAMBDA n :
             IF e > i /\ d > e /\ n > 0
             THEN <<SubSeq(t, i, e - 1), SubSeq(t, d, d + n - 1)>>
             ELSE NoMatch)))

\* re.search from position i on: the leftmost match of each pattern
RECURSIVE SearchIso(_, _)
SearchIso(t, i) ==
  IF i > Len(t) THEN NoMatch
  ELSE Bind(IsoAt(t, i), LAMBDA m : IF m # NoMatch THEN m ELSE SearchIso(t, i + 1))

RECURSIVE SearchWeekday(_, _)
SearchWeekday(t, i) ==
  IF i > Len(t) THEN NoMatch
  ELSE Bind(WeekdayAt(t, i), LAMBDA m : IF m # NoMatch THEN m ELSE SearchWeekday(t, i + 1))

RECURSIVE SearchMonthDayYear(_, _)
SearchMonthDayYear(t, i) ==
  IF i > Len(t) THEN NoMatch
  ELSE Bind(MonthDayYearAt(t, i), LAMBDA m : IF m # NoMatch THEN m ELSE SearchMonthDayYear(t, i + 1))

RECURSIVE SearchMonthDay(_, _)
SearchMonthDay(t, i) ==
  IF i > Len(t) THEN NoMatch
  ELSE Bind(MonthDayAt(t, i), LAMBDA m : IF m # NoMatch THEN m ELSE SearchMonthDay(t, i + 1))

\* What a grammar of parse_date_any comes to: nothing (control falls through
\* to the next grammar), a returned string, or the ValueError of date()
Nothing == [returned |-> "", raised |-> FALSE, fell |-> TRUE]

Returned(s) == [returned |-> s, raised |-> FALSE, fell |-> FALSE]

ValueError == [returned |-> "", raised |-> TRUE, fell |-> FALSE]

\* Lines 59-62: the ISO grammar
TryIso(t) ==
  Bind(SearchIso(t, 1), LAMBDA m :
    IF m = NoMatch THEN Nothing
    ELSE Returned(normalize_iso(ParseInt(m[1]), ParseInt(m[2]), ParseInt(m[3]))))

\* Lines 66-72 and 76-82: the match m of a grammar with a year
WithYear(m) ==
  IF m = NoMatch THEN Nothing
  ELSE Bind(MonthNumber(Lower(m[1])), LAMBDA mm :
         IF mm = 0 THEN Nothing
         ELSE Returned(normalize_iso(ParseInt(m[3]), mm, ParseInt(m[2]))))

\* Lines 64-72: Weekday, Month DD, YYYY
TryWeekday(t) == WithYear(SearchWeekday(t, 1))

\* Lines 74-82: Month DD, YYYY
TryMonthDayYear(t) == WithYear(SearchMonthDayYear(t, 1))

\* Lines 92-98 with the comparison of line 96 made >=
InferYearInclusive(today, mm, day) ==
  IF ~ValidDate(today.year, mm, day) THEN ValueError
  ELSE IF DaysBetween(today, [year |-> today.year, month |-> mm, day |-> day]) >= 270
       THEN Returned(normalize_iso(today.year + 1, mm, day))
       ELSE Returned(normalize_iso(today.year, mm, day))

\* Lines 92-98: the year of a date given without one
InferYear(today, mm, day) ==
  IF ~ValidDate(today.year, mm, day) THEN ValueError
  ELSE IF DaysBetween(today, [year |-> today.year, month |-> mm, day |-> day]) > 270
       THEN Returned(normalize_iso(today.year + 1, mm, day))
       ELSE Returned(normalize_iso(today.year, mm, day))

\* Lines 84-98: Month DD
TryMonthDay(t, today) ==
  Bind(SearchMonthDay(t, 1), LAMBDA m :
    IF m = NoMatch THEN Nothing
    ELSE Bind(MonthNumber(Lower(m[1])), LAMBDA mm :
           IF mm = 0 THEN Nothing ELSE InferYear(today, mm, ParseInt(m[2]))))

\* The result of parse_date_any with the grammar that ended the call (0 for
\* the return of line 100) and the grammars whose pattern was searched
Ended(r, g, searched) ==
  [returned |-> r.returned, raised |-> r.raised, grammar |-> g, searched |-> searched]

\* parse_date_any with Month DD, YYYY tried before the ISO grammar
parse_date_any_long_first(text, today) ==
  Bind(SingleSpaced(text), LAMBDA t :
    Bind(TryMonthDayYear(t), LAMBDA r3 :
      IF ~r3.fell THEN Ended(r3, 3, {3})
      ELSE Bind(TryIso(t), LAMBDA r1 :
        IF ~r1.fell THEN Ended(r1, 1, {1, 3})
        ELSE Bind(TryWeekday(t), LAMBDA r2 :
          IF ~r2.fell THEN Ended(r2, 2, {1, 2, 3})
          ELSE Bind(TryMonthDay(t, today), LAMBDA r4 :
            IF ~r4.fell THEN Ended(r4, 4, 1..4)
            ELSE Ended(Returned(""), 0, 1..4))))))

\* parse_date_any(text), date.today() being today
parse_date_any(text, today) ==
  Bind(SingleSpaced(text), LAMBDA t :
    Bind(TryIso(t), LAMBDA r1 :
      IF ~r1.fell THEN Ended(r1, 1, {1})
      ELSE Bind(TryWeekday(t), LAMBDA r2 :
        IF ~r2.fell THEN Ended(r2, 2, 1..2)
        ELSE Bind(TryMonthDayYear(t), LAMBDA r3 :
          IF ~r3.fell THEN Ended(r3, 3, 1..3)
          ELSE Bind(TryMonthDay(t, today), LAMBDA r4 :
            IF ~r4.fell THEN Ended(r4, 4, 1..4)
            ELSE Ended(Returned(""), 0, 1..4))))))

(***************************************************************************)
(* fetch_sketchboard_drinkdraw.py: the record scrape_url builds            *)
(***************************************************************************)

URLS == <<"https://www.sketchboard.co/schedule", "https://www.sketchboard.co/calendar">>

\* The two results of classify_event that are not None.
FigureInfo ==
  [category |-> "Figure Drawing", venue |-> "Sketchboard (Figure)", price_text |-> ""]

DrinkDrawInfo ==
  [category |-> "Drink & Draw", venue |-> "Sketchboard @ Madrone Art Bar",
   price_text |-> "$15 cash only (per Sketchboard schedule)"]

\* The dict scrape_url appends for a candidate: its resolved date, link title,
\* classification, the text of its time range, the price extract_price found
\* ("" for none), its link and the page it was found on.
ScrapedEvent(date_iso, title, info, times_text, price, href, url) ==
  Bind(parse_time_range_any(times_text), LAMBDA times :
      [date |-> date_iso, venue |-> info.venue, title |-> title,
       category |-> info.category, event_type |-> "",
       start_time |-> times[1], end_time |-> times[2],
       price_text |-> IF price # "" THEN price ELSE info.price_text,
       is_museum |-> "no", museum_name |-> "", event_url |-> href,
       notes |-> "Auto-imported from " \o url])

(***************************************************************************)
(* merge_csv.py                                                            *)
(***************************************************************************)

HEADERS ==
  <<"date", "venue", "title", "category", "event_type", "start_time", "end_time",
    "price_text", "is_museum", "museum_name", "event_url", "notes">>

HeaderSet == { HEADERS[i] : i \in 1..Len(HEADERS) }

\* A CSV file on disk: whether it exists, whether its header line is there,
\* and its data lines, one dict of raw cell texts each.
MissingFile == [exists |-> FALSE, header |-> FALSE, rows |-> <<>>]

EmptyFile == [exists |-> TRUE, header |-> FALSE, rows |-> <<>>]

CsvFile(rows) == [exists |-> TRUE, header |-> TRUE, rows |-> rows]

\* read_csv(p): [] for a missing file; DictReader yields nothing without a
\* header line; every cell is stripped.
read_csv(p) ==
  IF ~p.exists \/ ~p.header THEN <<>>
  ELSE [ i \in 1..Len(p.rows) |-> [ h \in HeaderSet |-> Strip(p.rows[i][h]) ] ]

\* The line writer.writerow(row) writes: the HEADERS cells of the row.
CsvLine(row) == [ h \in HeaderSet |-> row[h] ]

\* write_csv(p, rows), once the file is closed
write_csv(rows) == CsvFile([ i \in 1..Len(rows) |-> CsvLine(rows[i]) ])

SketchboardTag == "auto-imported: sketchboard"

\* is_sketchboard_auto(row)
is_sketchboard_auto(row) == Contains(SketchboardTag, Lower(row.notes))

\* key(row) without lower()
keyNoLower(row) ==
  <<row.date, Strip(row.venue), Strip(row.title), Strip(row.start_time), Strip(row.category)>>

\* key(row)
key(row) ==
  <<row.date, Strip(Lower(row.venue)), Strip(Lower(row.title)), Strip(row.start_time),
    Strip(Lower(row.category))>>

\* The loop without its seen test
UniqLoopKeepAll(merged, seen, uniq) == uniq \o merged

RECURSIVE UniqLoop(_, _, _)
\* main, lines 49-56: the loop over merged with its seen set and uniq list
UniqLoop(merged, seen, uniq) ==
  IF merged = <<>> THEN uniq
  ELSE LET r == Head(merged)
           k == key(r)
       IN  IF k \in seen THEN UniqLoop(Tail(merged), seen, uniq)
           ELSE UniqLoop(Tail(merged), seen \cup {k}, Append(uniq, r))

\* main, line 58: the key of uniq.sort
MergeSortKey(r) == <<r.date, r.start_time, r.venue, r.title>>

\* main, line 58: uniq.sort(key=...)
SortUniq(uniq) == Items(StableSort([ i \in 1..Len(uniq) |-> <<MergeSortKey(uniq[i]), uniq[i]>> ]))

\* main, line 45: cleaned
Cleaned(base_rows) == SelectSeq(base_rows, LAMBDA r : ~is_sketchboard_auto(r))


(***************************************************************************)
(* fetch_sketchboard_drinkdraw.py: dedupe                                  *)
(***************************************************************************)

\* The key of line 251 without lower()
sb_key_cased(ev) == <<ev.date, Strip(ev.title), Strip(ev.start_time), ev.category>>

\* dedupe, line 251: key
sb_key(ev) == <<ev.date, Strip(Lower(ev.title)), Strip(ev.start_time), ev.category>>

RECURSIVE sb_dedupe_loop(_, _, _)
\* dedupe, lines 248-255: the loop with its seen set and uniq list
sb_dedupe_loop(events, seen, uniq) ==
  IF events = <<>> THEN uniq
  ELSE LET ev == Head(events)
           k == sb_key(ev)
       IN  IF k \in seen THEN sb_dedupe_loop(Tail(events), seen, uniq)
           ELSE sb_dedupe_loop(Tail(events), seen \cup {k}, Append(uniq, ev))

\* dedupe, line 256: uniq.sort(key=...)
sb_sort(uniq) ==
  Items(StableSort([ i \in 1..Len(uniq) |->
                       <<<<uniq[i].date, uniq[i].start_time, uniq[i].title>>, uniq[i]>> ]))

\* dedupe(events)
sb_dedupe(events) == sb_sort(sb_dedupe_loop(events, {}, <<>>))

(***************************************************************************)
(* scrape_case.py                                                          *)
(***************************************************************************)

\* guess_category(title)
guess_category(title) ==
  LET t == Lower(title)
  IN  IF Contains("figure", t) THEN "Figure Drawing"
      ELSE IF Contains("drink", t) /\ Contains("draw", t) THEN "Drink & Draw"
      ELSE IF Contains("zine", t) THEN "Zine"
      ELSE IF Contains("collage", t) THEN "Workshop"
      ELSE IF Contains("block print", t) \/ Contains("linocut", t) \/ Contains("print", t)
           THEN "Workshop"
      ELSE IF Contains("watercolor", t) \/ Contains("paint", t) THEN "Workshop"
      ELSE "Workshop"

BASE == "https://caseformaking.com"

\* The dict extract appends for a product card: the date and start time read
\* off the card, the page's label, the link title, the price found ("" for
\* none) and the link's path, which urljoin puts after BASE.  (The venue
\* names have an em dash in the script; the hyphen stands for it here.)
CaseEvent(date_iso, label, title, start_time, price, href) ==
  [date |-> date_iso,
   venue |-> IF label = "In Person" THEN "Case for Making - Art Room (SF)"
             ELSE "Case for Making - Online",
   title |-> title, category |-> guess_category(title), start_time |-> start_time,
   end_time |-> "", price_text |-> price, event_url |-> BASE \o href,
   is_museum |-> "false", source |-> "Case for Making"]

\* dedupe, line 160: k
case_key(r) == <<r.date, Lower(Strip(r.title)), Lower(Strip(r.venue)), r.start_time>>

RECURSIVE case_dedupe_loop_last(_, _, _)
\* The loop keeping the last record of each key instead of the first
case_dedupe_loop_last(rows, seen, out) ==
  IF rows = <<>> THEN out
  ELSE IF \E j \in 2..Len(rows) : case_key(rows[j]) = case_key(Head(rows))
       THEN case_dedupe_loop_last(Tail(rows), seen, out)
       ELSE case_dedupe_loop_last(Tail(rows), seen, Append(out, Head(rows)))

RECURSIVE case_dedupe_loop(_, _, _)
\* dedupe, lines 157-164: the loop with its seen set and out list
case_dedupe_loop(rows, seen, out) ==
  IF rows = <<>> THEN out
  ELSE LET r == Head(rows)
           k == case_key(r)
       IN  IF k \in seen THEN case_dedupe_loop(Tail(rows), seen, out)
           ELSE case_dedupe_loop(Tail(rows), seen \cup {k}, Append(out, r))

\* dedupe, line 165: out.sort(key=...)
case_sort(out) ==
  Items(StableSort([ i \in 1..Len(out) |->
                       <<<<out[i].date, out[i].start_time, Lower(out[i].title)>>, out[i]>> ]))

\* dedupe(rows)
case_dedupe(rows) == case_sort(case_dedupe_loop(rows, {}, <<>>))

(***************************************************************************)
(* The tables the merge is run on                                          *)
(***************************************************************************)

MaxBase == 2

MaxBatch == 2

\* Sequences over S of length at most n
RECURSIVE SeqsUpTo(_, _)
SeqsUpTo(S, n) ==
  IF n = 0 THEN {<<>>}
  ELSE LET shorter == SeqsUpTo(S, n - 1)
       IN  shorter \cup { Append(q, x) : q \in { r \in shorter : Len(r) = n - 1 }, x \in S }

\* A hand written line of events.csv
ManualRow(date, venue, title, category, start_time, price, notes) ==
  [date |-> date, venue |-> venue, title |-> title, category |-> category,
   event_type |-> "", start_time |-> start_time, end_time |-> "",
   price_text |-> price, is_museum |-> "no", museum_name |-> "", event_url |-> "",
   notes |-> notes]

\* Rows of sketchboard_auto.csv as scrape_url builds them: a figure session
\* at 18:00, the same with its title in another casing, at 9:00, with a price on
\* the page, and on an earlier date.
FigEvening == ScrapedEvent("2026-03-05", "Fig", FigureInfo, "18:00-21:00", "", "", URLS[1])

FigLowercase == ScrapedEvent("2026-03-05", "fig", FigureInfo, "18:00-21:00", "", "", URLS[1])

FigMorning == ScrapedEvent("2026-03-05", "Fig", FigureInfo, "9:00-11:00", "", "", URLS[1])

FigPriced == ScrapedEvent("2026-03-05", "Fig", FigureInfo, "18:00-21:00", "$20", "", URLS[2])

DrinkEarlier == ScrapedEvent("2026-02-26", "Drink", DrinkDrawInfo, "", "", "", URLS[1])

\* A row carrying the marker is_sketchboard_auto looks for: the figure session
\* at 18:00 under another category.
FigTagged ==
  ManualRow("2026-03-05", FigureInfo.venue, "Fig", "Sketchboard", "18:00", "",
            "Auto-imported: Sketchboard")

\* Hand written rows: one with padded cells and another casing of the same
\* event, and one with the key of FigEvening.
StudioRow == ManualRow("2026-03-01", "Arch", "Studio", "Workshop", "10:00", "Free", "")

StudioPadded == ManualRow("2026-03-01", " ARCH", "Studio ", "Workshop", "10:00", "", "")

FigManual == ManualRow("2026-03-05", FigureInfo.venue, "Fig", "Figure Drawing", "18:00", "$5", "")

BatchRows == {FigEvening, FigLowercase, FigMorning, FigPriced, DrinkEarlier, FigTagged}

BaseRows == {StudioRow, StudioPadded, FigManual, FigTagged}

\* The contents sketchboard_auto.csv can have: absent, or a header and rows
BatchFiles == {MissingFile} \cup { CsvFile(rows) : rows \in SeqsUpTo(BatchRows, MaxBatch) }

BaseFiles == { CsvFile(rows) : rows \in SeqsUpTo(BaseRows, MaxBase) }

\* What the two pages of the Sketchboard site yield in one run of the importer
SketchboardEvents == {FigEvening, FigLowercase, FigMorning, FigPriced, DrinkEarlier}

\* Product cards of the Case for Making pages: a workshop, the same with its
\* title in another casing, with another price, online, and a later one.
CaseCards ==
  { CaseEvent("2026-03-07", "In Person", "Zine Night", "14:00", "$40", "/products/zine"),
    CaseEvent("2026-03-07", "In Person", "ZINE NIGHT", "14:00", "$40", "/products/zine"),
    CaseEvent("2026-03-07", "In Person", "Zine Night", "14:00", "$45", "/products/zine-2"),
    CaseEvent("2026-03-07", "Online", "Zine Night", "14:00", "$40", "/products/zine"),
    CaseEvent("2026-03-14", "In Person", "Figure Lab", "10:00", "", "/products/figure") }

MaxEvents == 3

\* The words of the texts handed to parse_date_any: an ISO date, a weekday,
\* two months, a word that is no month, days with and without a comma, a year
DateTokens == {"2026-03-05", "Mon,", "March", "Feb", "Room", "5", "12,", "2027"}

MaxTokens == 4

RECURSIVE JoinWords(_)
\* " ".join(words)
JoinWords(words) ==
  IF Len(words) = 0 THEN ""
  ELSE IF Len(words) = 1 THEN words[1]
  ELSE words[1] \o " " \o JoinWords(Tail(words))

TokenTexts == { JoinWords(words) : words \in SeqsUpTo(DateTokens, MaxTokens) }

\* Texts with irregular spacing, an ordinal day, a word that only begins as a
\* month and a month after a hyphen
OddTexts ==
  {"  March   5 ", "Monday,  February 17, 2026", "Sept 5th", "Sat 5", "Marching 5", "x-May 31"}

MonthWords ==
  <<"January", "February", "March", "April", "May", "June", "July", "August",
    "September", "October", "November", "December">>

\* "Month D" as a page prints it
MonthDayText(m, d) == MonthWords[m] \o " " \o Decimal(d)

MonthDayTexts == { MonthDayText(m, d) : m \in 1..12, d \in 0..31 }

TwoDigits(n) == IF n < 10 THEN "0" \o Decimal(n) ELSE Decimal(n)

\* "YYYY-MM-DD" for a year of four digits
IsoText(y, m, d) == Decimal(y) \o "-" \o TwoDigits(m) \o "-" \o TwoDigits(d)

IsoYears == {1999, 2000, 2024, 2026, 2099, 2100}

IsoTexts == { IsoText(y, m, d) : y \in IsoYears, m \in 0..13, d \in {0, 1, 28, 29, 30, 31, 32} }

Day(y, m, d) == [year |-> y, month |-> m, day |-> d]

\* Values of date.today(): 270 and 271 days after 1 January 2026 among them,
\* and the leap day and the last day of a leap year
Today == Day(2026, 11, 1)

Todays ==
  {Today, Day(2026, 1, 15), Day(2026, 9, 28), Day(2026, 9, 29), Day(2028, 2, 29), Day(2028, 12, 31)}

\* The calls of parse_date_any: a text and the day of the call
DateCalls ==
  ((TokenTexts \cup OddTexts \cup IsoTexts) \X {Today}) \cup (MonthDayTexts \X Todays)

(***************************************************************************)
(* scrape_syzygy.py: recurrence rules and time ranges                      *)
(***************************************************************************)

\* scrape_syzygy.py, line 28
ROLLING_DAYS == 90

WEEKDAY_MAP ==
  [monday |-> 0, tuesday |-> 1, wednesday |-> 2, thursday |-> 3, friday |-> 4,
   saturday |-> 5, sunday |-> 6]

ORDINAL_MAP ==
  ("1st" :> 1) @@ ("first" :> 1) @@ ("2nd" :> 2) @@ ("second" :> 2) @@
  ("3rd" :> 3) @@ ("third" :> 3) @@ ("4th" :> 4) @@ ("fourth" :> 4)

\* \b(w1|w2|...)\b at position i of t: the word matched, "" when none is.
\* (None of the words of WEEKDAY_MAP or of ORDINAL_MAP begins another.)
WordAt(t, i, words) ==
  LET hit == { w \in words : /\ i + Len(w) - 1 <= Len(t)
                             /\ SubSeq(t, i, i + Len(w) - 1) = w
                             /\ WordBoundary(t, i)
                             /\ WordBoundary(t, i + Len(w)) }
  IN  IF hit = {} THEN "" ELSE CHOOSE w \in hit : TRUE

RECURSIVE AddDays(_, _)
\* d + timedelta(days=k), k >= 0
AddDays(d, k) ==
  IF k = 0 THEN d
  ELSE IF d.day < DaysInMonth(d.year, d.month) THEN AddDays([d EXCEPT !.day = @ + 1], k - 1)
  ELSE IF d.month < 12 THEN AddDays(Day(d.year, d.month + 1, 1), k - 1)
  ELSE AddDays(Day(d.year + 1, 1, 1), k - 1)

\* next_weekday_on_or_after, were it to skip the day d itself
next_weekday_after(d, weekday) ==
  LET delta == ((weekday - ((ToOrdinal(d) + 6) % 7) - 1) % 7) + 1
  IN  AddDays(d, delta)

\* date.weekday() is (toordinal() + 6) % 7: Monday is 0
next_weekday_on_or_after(d, weekday) ==
  LET delta == (weekday - ((ToOrdinal(d) + 6) % 7)) % 7
  IN  AddDays(d, delta)

\* nth_weekday_of_month, were it to count the occurrences from 0
nth_weekday_of_month_from_zero(year, month, weekday, n) ==
  LET first     == Day(year, month, 1)
      first_w   == next_weekday_on_or_after(first, weekday)
      candidate == AddDays(first_w, 7 * n)
  IN  IF candidate.month # month THEN <<>> ELSE <<candidate>>

\* None is the empty sequence, a date d is <<d>>
nth_weekday_of_month(year, month, weekday, n) ==
  LET first     == Day(year, month, 1)
      first_w   == next_weekday_on_or_after(first, weekday)
      candidate == AddDays(first_w, 7 * (n - 1))
  IN  IF candidate.month # month THEN <<>> ELSE <<candidate>>

\* expand_rule_to_dates without the test of line 154
expand_rule_to_dates_unguarded(rule_text, window_start, window_end) ==
  LET weekdays == DOMAIN WEEKDAY_MAP
      ordinals == DOMAIN ORDINAL_MAP
      Before(a, b) == ToOrdinal(a) < ToOrdinal(b)
      First(at) == CHOOSE i \in at : \A j \in at : i <= j
      \* re.search(r"\b(w1|w2|...)\b", txt).group(1), "" for None
      FirstWord(txt, words) ==
        Bind({ i \in 1..Len(txt) : WordAt(txt, i, words) # "" }, LAMBDA at :
          IF at = {} THEN "" ELSE WordAt(txt, First(at), words))
      \* \bevery\s+(monday|...|sunday)\b at position i: the weekday, or ""
      EveryAt(txt, i) ==
        IF /\ WordBoundary(txt, i)
           /\ i + 4 <= Len(txt)
           /\ SubSeq(txt, i, i + 4) = "every"
           /\ SkipSpaces(txt, i + 5) > i + 5
        THEN WordAt(txt, SkipSpaces(txt, i + 5), weekdays)
        ELSE ""
      \* line 159: the weekday of the first match, "" for None
      Every(txt) ==
        Bind({ i \in 1..Len(txt) : EveryAt(txt, i) # "" }, LAMBDA every :
          IF every = {} THEN "" ELSE EveryAt(txt, First(every)))
      RECURSIVE Weekly(_)
      \* lines 163-166
      Weekly(d) == IF Before(d, window_end) THEN <<d>> \o Weekly(AddDays(d, 7)) ELSE <<>>
      \* lines 179-181
      Kept(cand) ==
        IF cand # <<>> /\ ~Before(cand[1], window_start) /\ Before(cand[1], window_end)
        THEN cand ELSE <<>>
      RECURSIVE Monthly(_, _, _)
      \* lines 177-186, from the first day cur of a month
      Monthly(cur, wd, n) ==
        IF ~Before(cur, window_end) THEN <<>>
        ELSE Kept(nth_weekday_of_month(cur.year, cur.month, wd, n))
             \o Monthly(IF cur.month = 12 THEN Day(cur.year + 1, 1, 1)
                        ELSE Day(cur.year, cur.month + 1, 1), wd, n)
      \* lines 158-189 with the matches m, ord_m and wd_m, "" for None
      Dates(txt, m, ord_m, wd_m) ==
        IF m # "" /\ ~Contains("month", txt) /\ ord_m = ""
        THEN Weekly(next_weekday_on_or_after(window_start, WEEKDAY_MAP[m]))
        ELSE IF ord_m # "" /\ wd_m # ""
        THEN Monthly(Day(window_start.year, window_start.month, 1),
                     WEEKDAY_MAP[wd_m], ORDINAL_MAP[ord_m])
        ELSE <<>>
  IN  Bind(Lower(Strip(rule_text)), LAMBDA txt :
        Dates(txt, Every(txt), FirstWord(txt, ordinals), FirstWord(txt, weekdays)))

expand_rule_to_dates(rule_text, window_start, window_end) ==
  LET weekdays == DOMAIN WEEKDAY_MAP
      ordinals == DOMAIN ORDINAL_MAP
      Before(a, b) == ToOrdinal(a) < ToOrdinal(b)
      First(at) == CHOOSE i \in at : \A j \in at : i <= j
      \* re.search(r"\b(w1|w2|...)\b", txt).group(1), "" for None
      FirstWord(txt, words) ==
        Bind({ i \in 1..Len(txt) : WordAt(txt, i, words) # "" }, LAMBDA at :
          IF at = {} THEN "" ELSE WordAt(txt, First(at), words))
      \* \bevery\s+(monday|...|sunday)\b at position i: the weekday, or ""
      EveryAt(txt, i) ==
        IF /\ WordBoundary(txt, i)
           /\ i + 4 <= Len(txt)
           /\ SubSeq(txt, i, i + 4) = "every"
           /\ SkipSpaces(txt, i + 5) > i + 5
        THEN WordAt(txt, SkipSpaces(txt, i + 5), weekdays)
        ELSE ""
      \* line 159: the weekday of the first match, "" for None
      Every(txt) ==
        Bind({ i \in 1..Len(txt) : EveryAt(txt, i) # "" }, LAMBDA every :
          IF every = {} THEN "" ELSE EveryAt(txt, First(every)))
      RECURSIVE Weekly(_)
      \* lines 163-166
      Weekly(d) == IF Before(d, window_end) THEN <<d>> \o Weekly(AddDays(d, 7)) ELSE <<>>
      \* lines 179-181
      Kept(cand) ==
        IF cand # <<>> /\ ~Before(cand[1], window_start) /\ Before(cand[1], window_end)
        THEN cand ELSE <<>>
      RECURSIVE Monthly(_, _, _)
      \* lines 177-186, from the first day cur of a month
      Monthly(cur, wd, n) ==
        IF ~Before(cur, window_end) THEN <<>>
        ELSE Kept(nth_weekday_of_month(cur.year, cur.month, wd, n))
             \o Monthly(IF cur.month = 12 THEN Day(cur.year + 1, 1, 1)
                        ELSE Day(cur.year, cur.month + 1, 1), wd, n)
      \* lines 154-189 with the matches m, ord_m and wd_m, "" for None
      Dates(txt, m, ord_m, wd_m) ==
        IF Contains("every other", txt) THEN <<>>
        ELSE IF m # "" /\ ~Contains("month", txt) /\ ord_m = ""
        THEN Weekly(next_weekday_on_or_after(window_start, WEEKDAY_MAP[m]))
        ELSE IF ord_m # "" /\ wd_m # ""
        THEN Monthly(Day(window_start.year, window_start.month, 1),
                     WEEKDAY_MAP[wd_m], ORDINAL_MAP[ord_m])
        ELSE <<>>
  IN  Bind(Lower(Strip(rule_text)), LAMBDA txt :
        Dates(txt, Every(txt), FirstWord(txt, ordinals), FirstWord(txt, weekdays)))

\* parse_time_range, were "pm" to add 12 to the hour 12 as well
parse_time_range_pm12(text) ==
  LET RECURSIVE Unspaced(_)
      \* s.replace(" ", "")
      Unspaced(s) ==
        IF s = "" THEN ""
        ELSE IF CharAt(s, 1) = " " THEN Unspaced(Rest(s))
        ELSE CharAt(s, 1) \o Unspaced(Rest(s))
      Hour(h, ampm) ==
        IF ampm = "pm" THEN h + 12
        ELSE (IF h = 12 THEN 0 ELSE h)
      Minute(mm) == IF mm = "" THEN 0 ELSE ParseInt(mm)
  IN  Bind(Unspaced(Lower(text)), LAMBDA t :
        LET \* (\d{1,2})(?::(\d{2}))? at position i: <<hour, minute, next position>>,
            \* the minute "" when the group is absent; <<>> when it does not match
            Clock(i) ==
              Bind(IF IsDigitAt(t, i) /\ IsDigitAt(t, i + 1) THEN 2
                   ELSE IF IsDigitAt(t, i) THEN 1 ELSE 0, LAMBDA n :
                IF n = 0 THEN <<>>
                ELSE IF /\ i + n <= Len(t)
                        /\ CharAt(t, i + n) = ":"
                        /\ IsDigitAt(t, i + n + 1)
                        /\ IsDigitAt(t, i + n + 2)
                THEN <<SubSeq(t, i, i + n - 1), SubSeq(t, i + n + 1, i + n + 2), i + n + 3>>
                ELSE <<SubSeq(t, i, i + n - 1), "", i + n>>)
            \* the whole pattern at position i: <<sh, sm, eh, em, ampm>>, or <<>>
            RangeAt(i) ==
              Bind(Clock(i), LAMBDA s :
                IF ~WordBoundary(t, i) \/ s = <<>> THEN <<>>
                ELSE IF ~(s[3] <= Len(t) /\ CharAt(t, s[3]) = "-") THEN <<>>
                ELSE Bind(Clock(s[3] + 1), LAMBDA e :
                       IF e = <<>> THEN <<>>
                       ELSE IF /\ e[3] + 1 <= Len(t)
                               /\ SubSeq(t, e[3], e[3] + 1) \in {"am", "pm"}
                               /\ WordBoundary(t, e[3] + 2)
                       THEN <<s[1], s[2], e[1], e[2], SubSeq(t, e[3], e[3] + 1)>>
                       ELSE <<>>))
        IN  Bind({ i \in 1..Len(t) : RangeAt(i) # <<>> }, LAMBDA at :
              IF at = {} THEN <<"", "">>
              ELSE Bind(RangeAt(CHOOSE i \in at : \A j \in at : i <= j), LAMBDA g :
                     << FormatInt(Hour(ParseInt(g[1]), g[5]), 2) \o ":" \o FormatInt(Minute(g[2]), 2),
                        FormatInt(Hour(ParseInt(g[3]), g[5]), 2) \o ":" \o FormatInt(Minute(g[4]), 2) >>)))

\* parse_time_range of scrape_syzygy.py
parse_time_range(text) ==
  LET RECURSIVE Unspaced(_)
      \* s.replace(" ", "")
      Unspaced(s) ==
        IF s = "" THEN ""
        ELSE IF CharAt(s, 1) = " " THEN Unspaced(Rest(s))
        ELSE CharAt(s, 1) \o Unspaced(Rest(s))
      Hour(h, ampm) ==
        IF ampm = "pm" THEN (IF h # 12 THEN h + 12 ELSE h)
        ELSE (IF h = 12 THEN 0 ELSE h)
      Minute(mm) == IF mm = "" THEN 0 ELSE ParseInt(mm)
  IN  Bind(Unspaced(Lower(text)), LAMBDA t :
        LET \* (\d{1,2})(?::(\d{2}))? at position i: <<hour, minute, next position>>,
            \* the minute "" when the group is absent; <<>> when it does not match
            Clock(i) ==
              Bind(IF IsDigitAt(t, i) /\ IsDigitAt(t, i + 1) THEN 2
                   ELSE IF IsDigitAt(t, i) THEN 1 ELSE 0, LAMBDA n :
                IF n = 0 THEN <<>>
                ELSE IF /\ i + n <= Len(t)
                        /\ CharAt(t, i + n) = ":"
                        /\ IsDigitAt(t, i + n + 1)
                        /\ IsDigitAt(t, i + n + 2)
                THEN <<SubSeq(t, i, i + n - 1), SubSeq(t, i + n + 1, i + n + 2), i + n + 3>>
                ELSE <<SubSeq(t, i, i + n - 1), "", i + n>>)
            \* the whole pattern at position i: <<sh, sm, eh, em, ampm>>, or <<>>
            RangeAt(i) ==
              Bind(Clock(i), LAMBDA s :
                IF ~WordBoundary(t, i) \/ s = <<>> THEN <<>>
                ELSE IF ~(s[3] <= Len(t) /\ CharAt(t, s[3]) = "-") THEN <<>>
                ELSE Bind(Clock(s[3] + 1), LAMBDA e :
                       IF e = <<>> THEN <<>>
                       ELSE IF /\ e[3] + 1 <= Len(t)
                               /\ SubSeq(t, e[3], e[3] + 1) \in {"am", "pm"}
                               /\ WordBoundary(t, e[3] + 2)
                       THEN <<s[1], s[2], e[1], e[2], SubSeq(t, e[3], e[3] + 1)>>
                       ELSE <<>>))
        IN  Bind({ i \in 1..Len(t) : RangeAt(i) # <<>> }, LAMBDA at :
              IF at = {} THEN <<"", "">>
              ELSE Bind(RangeAt(CHOOSE i \in at : \A j \in at : i <= j), LAMBDA g :
                     << FormatInt(Hour(ParseInt(g[1]), g[5]), 2) \o ":" \o FormatInt(Minute(g[2]), 2),
                        FormatInt(Hour(ParseInt(g[3]), g[5]), 2) \o ":" \o FormatInt(Minute(g[4]), 2) >>)))

(***************************************************************************)
(* scrape_syzygy.py: the cards of the page and the rows built from them     *)
(***************************************************************************)

\* \b(\d{2})-(\d{2})-(\d{4})\b at position i of s
MmDdYyyyAt(s, i) ==
  /\ i + 9 <= Len(s)
  /\ WordBoundary(s, i)
  /\ IsDigits(SubSeq(s, i, i + 1))
  /\ CharAt(s, i + 2) = "-"
  /\ IsDigits(SubSeq(s, i + 3, i + 4))
  /\ CharAt(s, i + 5) = "-"
  /\ IsDigits(SubSeq(s, i + 6, i + 9))
  /\ WordBoundary(s, i + 10)

\* parse_mm_dd_yyyy(s): None is date <<>>, a date d is date <<d>>; date()
\* raises ValueError for a month and day that are no day of the calendar
parse_mm_dd_yyyy(s) ==
  LET at == { i \in 1..Len(s) : MmDdYyyyAt(s, i) }
      i  == CHOOSE k \in at : \A j \in at : k <= j
      mm == ParseInt(SubSeq(s, i, i + 1))
      dd == ParseInt(SubSeq(s, i + 3, i + 4))
      yyyy == ParseInt(SubSeq(s, i + 6, i + 9))
  IN  IF at = {} THEN [raised |-> FALSE, date |-> <<>>]
      ELSE IF ~ValidDate(yyyy, mm, dd) THEN [raised |-> TRUE, date |-> <<>>]
      ELSE [raised |-> FALSE, date |-> <<Day(yyyy, mm, dd)>>]

infer_category(title) ==
  LET t == Lower(title)
  IN  IF Contains("zine", t) THEN "Zines"
      ELSE IF Contains("record", t) \/ Contains("flipside", t) \/ Contains("jam", t) THEN "Music"
      ELSE IF Contains("game", t) THEN "Games"
      ELSE IF Contains("hobby", t) THEN "Hobby Hang"
      ELSE IF Contains("market", t) \/ Contains("fair", t) THEN "Art Market"
      ELSE "Syzygy"

\* scrape_syzygy() on a page whose "Special Events" and "Recurring Events"
\* headings are followed by the links special and recurring (each a text and
\* an href), run on the day today: the rows returned, or raised
scrape_syzygy(special, recurring, today_) ==
  LET SYZYGY_URL   == "https://syzygysf.com/"
      VENUE_NAME   == "Syzygy SF"
      SKIP_TITLES_CONTAINING == {"Drink and Draw"}
      window_start == today_
      isoformat(d) == FormatInt(d.year, 4) \o "-" \o FormatInt(d.month, 2) \o "-" \o FormatInt(d.day, 2)
      RECURSIVE StripChars(_, _)
      \* s.strip(chars)
      StripChars(s, chars) ==
        IF s # "" /\ CharAt(s, 1) \in chars THEN StripChars(Rest(s), chars)
        ELSE IF s # "" /\ CharAt(s, Len(s)) \in chars THEN StripChars(Front(s), chars)
        ELSE s
      RECURSIVE LStripSlash(_)
      LStripSlash(s) == IF s # "" /\ CharAt(s, 1) = "/" THEN LStripSlash(Rest(s)) ELSE s
      RECURSIVE RStripSlash(_)
      RStripSlash(s) == IF s # "" /\ CharAt(s, Len(s)) = "/" THEN RStripSlash(Front(s)) ELSE s
      Skipped(title) == \E k \in SKIP_TITLES_CONTAINING : Contains(Lower(k), Lower(title))
      Url(href) ==
        IF Len(href) >= 4 /\ SubSeq(href, 1, 4) = "http" THEN href
        ELSE RStripSlash(SYZYGY_URL) \o "/" \o LStripSlash(href)
      EventRow(d, title, st, et, url, source) ==
        [date |-> isoformat(d), venue |-> VENUE_NAME, title |-> title,
         category |-> infer_category(title), start_time |-> st, end_time |-> et,
         price_text |-> "", event_url |-> url, is_museum |-> "false", source |-> source]
      \* collect_cards_until_next_heading, lines 224-229
      Collected(links) == SelectSeq(links, LAMBDA a : Len(SingleSpaced(a.text)) >= 5)
      RECURSIVE WithoutDates(_, _)
      \* re.sub(r"\b\d{2}-\d{2}-\d{4}\b", "", s), from position i on
      WithoutDates(s, i) ==
        IF i > Len(s) THEN ""
        ELSE IF MmDdYyyyAt(s, i) THEN WithoutDates(s, i + 10)
        ELSE CharAt(s, i) \o WithoutDates(s, i + 1)
      Raise == [raised |-> TRUE, rows |-> <<>>]
      Rows(rows) == [raised |-> FALSE, rows |-> rows]
      \* the pattern of lines 276-281 at position i of the lowered text l
      RuleAt(l, i) ==
        /\ WordBoundary(l, i)
        /\ \/ /\ i + 4 <= Len(l)
              /\ SubSeq(l, i, i + 4) = "every"
              /\ \E j \in {SkipSpaces(l, i + 5)} :
                   /\ j > i + 5
                   /\ \/ WordAt(l, j, DOMAIN WEEKDAY_MAP) # ""
                      \/ /\ j + 4 <= Len(l)
                         /\ SubSeq(l, j, j + 4) = "other"
                         /\ \E k \in {SkipSpaces(l, j + 5)} :
                              /\ k > j + 5
                              /\ WordAt(l, k, DOMAIN WEEKDAY_MAP) # ""
           \/ \E o \in DOMAIN ORDINAL_MAP :
                /\ i + Len(o) - 1 <= Len(l)
                /\ SubSeq(l, i, i + Len(o) - 1) = o
                /\ \E j \in {SkipSpaces(l, i + Len(o))} :
                     /\ j > i + Len(o)
                     /\ WordAt(l, j, DOMAIN WEEKDAY_MAP) # ""
  IN  Bind(AddDays(today_, ROLLING_DAYS), LAMBDA window_end :
        LET \* lines 237-265 for one card: the rows appended, or raised
            Special(a) ==
              Bind(SingleSpaced(a.text), LAMBDA text_ :
                Bind(parse_mm_dd_yyyy(text_), LAMBDA d :
                  IF d.raised THEN Raise
                  ELSE IF d.date = <<>> THEN Rows(<<>>)
                  ELSE IF ~(/\ ToOrdinal(window_start) <= ToOrdinal(d.date[1])
                            /\ ToOrdinal(d.date[1]) < ToOrdinal(window_end)) THEN Rows(<<>>)
                  ELSE Bind(StripChars(SingleSpaced(WithoutDates(text_, 1)), {" ", "-"}), LAMBDA title :
                         IF Skipped(title) THEN Rows(<<>>)
                         ELSE Rows(<<EventRow(d.date[1], title, "", "", Url(a.href), "syzygy_special")>>))))
            \* lines 271-315 for one card: the rows appended
            Recurring(a) ==
              Bind(SingleSpaced(a.text), LAMBDA raw :
                Bind(Lower(raw), LAMBDA l :
                  Bind({ i \in 1..Len(l) : RuleAt(l, i) }, LAMBDA at :
                    IF raw = "" \/ at = {} THEN <<>>
                    ELSE Bind(CHOOSE i \in at : \A j \in at : i <= j, LAMBDA start :
                      Bind(SingleSpaced(SubSeq(raw, start, Len(raw))), LAMBDA rule :
                        Bind(StripChars(SingleSpaced(SubSeq(raw, 1, start - 1)), {" ", "-", ","}), LAMBDA title :
                          IF Skipped(title) THEN <<>>
                          ELSE Bind(expand_rule_to_dates(rule, window_start, window_end), LAMBDA dates :
                            IF dates = <<>> THEN <<>>
                            ELSE Bind(parse_time_range(rule), LAMBDA times :
                              Bind(IF a.href = "" THEN SYZYGY_URL ELSE Url(a.href), LAMBDA url :
                                [ n \in 1..Len(dates) |->
                                    EventRow(dates[n], title, times[1], times[2], url,
                                             "syzygy_recurring") ])))))))))
            RECURSIVE Specials(_)
            Specials(cards) ==
              IF cards = <<>> THEN Rows(<<>>)
              ELSE Bind(Special(Head(cards)), LAMBDA one :
                     IF one.raised THEN Raise
                     ELSE Bind(Specials(Tail(cards)), LAMBDA more :
                            IF more.raised THEN Raise ELSE Rows(one.rows \o more.rows)))
            RECURSIVE Recurrings(_)
            Recurrings(cards) ==
              IF cards = <<>> THEN <<>> ELSE Recurring(Head(cards)) \o Recurrings(Tail(cards))
            RECURSIVE Dedup(_, _, _)
            \* lines 318-325 over the sorted rows
            Dedup(rows, seen, deduped) ==
              IF rows = <<>> THEN deduped
              ELSE Bind(<<Head(rows).date, Lower(Head(rows).title), Head(rows).event_url>>, LAMBDA key_ :
                     IF key_ \in seen THEN Dedup(Tail(rows), seen, deduped)
                     ELSE Dedup(Tail(rows), seen \cup {key_}, Append(deduped, Head(rows))))
            Sorted(events) ==
              Items(StableSort([ n \in 1..Len(events) |->
                       <<<<events[n].date, events[n].title, events[n].event_url>>, events[n]>> ]))
        IN  Bind(Specials(Collected(special)), LAMBDA dated :
              IF dated.raised THEN [raised |-> TRUE, events |-> <<>>]
              ELSE [raised |-> FALSE,
                    events |-> Dedup(Sorted(dated.rows \o Recurrings(Collected(recurring))), {}, <<>>)]))

(***************************************************************************)
(* scrape_arch.py: time ranges                                             *)
(***************************************************************************)

\* _parse_time_token(token, meridiem_hint), the hint "" for None: the tuple
\* returned as hh, mm and m, or raised when int() raises ValueError
_parse_time_token(token, meridiem_hint) ==
  LET t0  == Lower(SingleSpaced(token))
      n   == Len(t0)
      own == IF n >= 2 /\ SubSeq(t0, n - 1, n) \in {"am", "pm"} THEN SubSeq(t0, n - 1, n) ELSE ""
      t   == IF own # "" THEN SubSeq(t0, 1, n - 2) ELSE t0
      m   == IF own # "" THEN own ELSE meridiem_hint
      RECURSIVE NoUnderscores(_)
      NoUnderscores(s) ==
        IF s = "" THEN ""
        ELSE IF CharAt(s, 1) = "_" THEN NoUnderscores(Rest(s))
        ELSE CharAt(s, 1) \o NoUnderscores(Rest(s))
      \* int(s): spaces around, a sign, digits with single underscores between
      \* them; <<>> for ValueError, <<value>> otherwise
      PyInt(s) ==
        LET u      == Strip(s)
            signed == u # "" /\ CharAt(u, 1) \in {"+", "-"}
            d      == IF signed THEN Rest(u) ELSE u
            ok     == /\ d # ""
                      /\ IsDigit(CharAt(d, 1))
                      /\ IsDigit(CharAt(d, Len(d)))
                      /\ \A i \in 1..Len(d) : IsDigit(CharAt(d, i)) \/ CharAt(d, i) = "_"
                      /\ ~Contains("__", d)
            v      == ParseInt(NoUnderscores(d))
        IN  IF ~ok THEN <<>>
            ELSE IF signed /\ CharAt(u, 1) = "-" THEN <<0 - v>> ELSE <<v>>
      colons == { i \in 1..Len(t) : CharAt(t, i) = ":" }
      colon  == CHOOSE i \in colons : \A j \in colons : i <= j
      hh     == IF colons # {} THEN PyInt(SubSeq(t, 1, colon - 1)) ELSE PyInt(t)
      mm     == IF colons # {} THEN PyInt(SubSeq(t, colon + 1, Len(t))) ELSE <<0>>
  IN  IF hh = <<>> \/ mm = <<>> THEN [raised |-> TRUE, hh |-> 0, mm |-> 0, m |-> ""]
      ELSE [raised |-> FALSE,
            hh |-> IF m = "am" THEN (IF hh[1] = 12 THEN 0 ELSE hh[1])
                   ELSE IF m = "pm" THEN (IF hh[1] # 12 THEN hh[1] + 12 ELSE hh[1])
                   ELSE hh[1],
            mm |-> mm[1],
            m  |-> m]

\* _parse_time_range, were the start parsed without the meridiem of the end
_parse_time_range_unhinted(times_text) ==
  LET t      == Lower(SingleSpaced(times_text))
      dashes == { i \in 1..Len(t) : CharAt(t, i) = "-" }
      dash   == CHOOSE i \in dashes : \A j \in dashes : i <= j
      start_raw == Strip(SubSeq(t, 1, dash - 1))
      end_raw   == Strip(SubSeq(t, dash + 1, Len(t)))
      \* f"{n:02d}"
      Pad(n) == IF n < 0 THEN "-" \o Decimal(0 - n) ELSE FormatInt(n, 2)
      None   == [raised |-> FALSE, range |-> <<>>]
      Raised == [raised |-> TRUE, range |-> <<>>]
  IN  IF dashes = {} THEN None
      ELSE Bind(_parse_time_token(end_raw, ""), LAMBDA e :
             IF e.raised THEN Raised
             ELSE IF e.m = "" THEN None
             ELSE Bind(_parse_time_token(start_raw, ""), LAMBDA s :
                    IF s.raised THEN Raised
                    ELSE [raised |-> FALSE,
                          range  |-> << Pad(s.hh) \o ":" \o Pad(s.mm),
                                        Pad(e.hh) \o ":" \o Pad(e.mm) >>]))

\* _parse_time_range(times_text): None is range <<>>, a ParsedTimeRange is
\* range <<start_hhmm, end_hhmm>>
_parse_time_range(times_text) ==
  LET t      == Lower(SingleSpaced(times_text))
      dashes == { i \in 1..Len(t) : CharAt(t, i) = "-" }
      dash   == CHOOSE i \in dashes : \A j \in dashes : i <= j
      start_raw == Strip(SubSeq(t, 1, dash - 1))
      end_raw   == Strip(SubSeq(t, dash + 1, Len(t)))
      \* f"{n:02d}"
      Pad(n) == IF n < 0 THEN "-" \o Decimal(0 - n) ELSE FormatInt(n, 2)
      None   == [raised |-> FALSE, range |-> <<>>]
      Raised == [raised |-> TRUE, range |-> <<>>]
  IN  IF dashes = {} THEN None
      ELSE Bind(_parse_time_token(end_raw, ""), LAMBDA e :
             IF e.raised THEN Raised
             ELSE IF e.m = "" THEN None
             ELSE Bind(_parse_time_token(start_raw, e.m), LAMBDA s :
                    IF s.raised THEN Raised
                    ELSE [raised |-> FALSE,
                          range  |-> << Pad(s.hh) \o ":" \o Pad(s.mm),
                                        Pad(e.hh) \o ":" \o Pad(e.mm) >>]))

(***************************************************************************)
(* The classifiers of the scrapers                                         *)
(***************************************************************************)

\* classify_event with the two buckets tested in the other order
classify_event_drink_first(title, block_text) ==
  LET figure_terms ==
        {"figure drawing", "life drawing", "figure session", "model session",
         "open studio (figure)", "open studio figure", "gesture drawing"}
      Bucket(tl, bl) ==
        IF \/ Contains("drink", tl) /\ Contains("draw", tl)
           \/ Contains("drink", bl) /\ Contains("draw", bl)
           \/ Contains("madrone", tl)
           \/ Contains("madrone", bl)
        THEN <<DrinkDrawInfo>>
        ELSE IF \/ \E term \in figure_terms : Contains(term, tl) \/ Contains(term, bl)
                \/ Contains("figure", tl) /\ Contains("drawing", tl)
        THEN <<FigureInfo>>
        ELSE <<>>
  IN  Bucket(Lower(Strip(title)), Lower(Strip(block_text)))

\* classify_event, were it to fall back to the Drink & Draw bucket
classify_event_total(title, block_text) ==
  LET figure_terms ==
        {"figure drawing", "life drawing", "figure session", "model session",
         "open studio (figure)", "open studio figure", "gesture drawing"}
      Bucket(tl, bl) ==
        IF \/ \E term \in figure_terms : Contains(term, tl) \/ Contains(term, bl)
           \/ Contains("figure", tl) /\ Contains("drawing", tl)
        THEN <<FigureInfo>>
        ELSE <<DrinkDrawInfo>>
  IN  Bucket(Lower(Strip(title)), Lower(Strip(block_text)))

\* fetch_sketchboard_drinkdraw.classify_event: None is the empty sequence, a
\* dict info is <<info>>
classify_event(title, block_text) ==
  LET figure_terms ==
        {"figure drawing", "life drawing", "figure session", "model session",
         "open studio (figure)", "open studio figure", "gesture drawing"}
      \* lines 152-167 on tl and bl
      Bucket(tl, bl) ==
        IF \/ \E term \in figure_terms : Contains(term, tl) \/ Contains(term, bl)
           \/ Contains("figure", tl) /\ Contains("drawing", tl)
        THEN <<FigureInfo>>
        ELSE IF \/ Contains("drink", tl) /\ Contains("draw", tl)
                \/ Contains("drink", bl) /\ Contains("draw", bl)
                \/ Contains("madrone", tl)
                \/ Contains("madrone", bl)
        THEN <<DrinkDrawInfo>>
        ELSE <<>>
  IN  Bucket(Lower(Strip(title)), Lower(Strip(block_text)))

\* scrape_minna.guess_category
minna_guess_category(title) ==
  LET Guess(t) ==
        IF Contains("sketch", t) \/ Contains("draw", t)
        THEN IF Contains("figure", t) THEN "Figure Drawing"
             ELSE IF Contains("drink", t) THEN "Drink & Draw"
             ELSE "Drawing"
        ELSE IF Contains("opening", t) \/ Contains("reception", t) THEN "Opening"
        ELSE IF Contains("exhibit", t) \/ Contains("exhibition", t) THEN "Exhibition"
        ELSE IF Contains("dj", t) \/ Contains("music", t) THEN "Music"
        ELSE "111 Minna"
  IN  Guess(Lower(title))

\* scrape_comix._choose_category on the list cats of anchor texts
_choose_category(cats) ==
  LET priority == <<"Signings", "Graphic Novel Club", "Party", "Free Comic Book Day", "Live Stream">>
      \* the indices p of priority with a c in cats such that c.lower() == p.lower()
      found == { p \in 1..Len(priority) :
                   \E c \in 1..Len(cats) : Lower(cats[c]) = Lower(priority[p]) }
  IN  IF found # {} THEN priority[CHOOSE p \in found : \A q \in found : p <= q]
      ELSE IF cats # <<>> THEN cats[1]
      ELSE "Comics"

\* fetch_sketchboard.first_category on item.get("categories"): a list is
\* [list |-> TRUE, items |-> its items], anything else (None when the key is
\* absent, a string, a number) is [list |-> FALSE]
first_category(categories) ==
  IF categories.list /\ categories.items # <<>> THEN categories.items[1]
  ELSE "Sketchboard"

\* scrape_missioncomics._infer_category
_infer_category(title, notes) ==
  LET CATEGORY_DEFAULT == "Comics"
      Infer(t, n) ==
        IF Contains("signing", t) \/ Contains("signing", n) THEN "Signing"
        ELSE IF Contains("party", t) \/ Contains("party", n) THEN "Party"
        ELSE IF Contains("workshop", t) \/ Contains("workshop", n) THEN "Workshop"
        ELSE IF Contains("zine", t) \/ Contains("zine", n) THEN "Zine"
        ELSE CATEGORY_DEFAULT
  IN  Infer(Lower(title), Lower(notes))

(***************************************************************************)
(* scrape_minna.py and scrape_missioncomics.py: pages with month headers    *)
(***************************************************************************)

\* The full month name at position i of the lowered text l: its number, 0
\* when none begins there
MonthNameAt(l, i) ==
  IF \E k \in 1..Len(MONTHS) :
       i + Len(MONTHS[k]) - 1 <= Len(l) /\ SubSeq(l, i, i + Len(MONTHS[k]) - 1) = MONTHS[k]
  THEN CHOOSE k \in 1..Len(MONTHS) :
         i + Len(MONTHS[k]) - 1 <= Len(l) /\ SubSeq(l, i, i + Len(MONTHS[k]) - 1) = MONTHS[k]
  ELSE 0

\* month_header_re.match(txt), MONTH_YEAR_RE.match(txt): None is <<>>, a
\* match is <<month number, int(group(2))>>
MonthYearHeader(txt) ==
  Bind(MonthNameAt(Lower(txt), 1), LAMBDA k :
    IF k = 0 THEN <<>>
    ELSE Bind(SkipSpaces(txt, Len(MONTHS[k]) + 1), LAMBDA y :
           IF /\ y > Len(MONTHS[k]) + 1
              /\ y + 3 = Len(txt)
              /\ IsDigits(SubSeq(txt, y, y + 3))
           THEN <<k, ParseInt(SubSeq(txt, y, y + 3))>>
           ELSE <<>>))

\* \s+(\d{1,2}) @ (time) - (time) from position j of t, where the two times
\* are \d{1,2}:\d{2}\s*(?:am|pm) with re.I and "@" stands between \s+ when
\* spaced and between \s* otherwise: <<>>, or <<day, start, end>> as matched.
\* (The en dash DT_RE allows for "-" is outside the ASCII texts modelled.)
DayTimesFrom(t, j, spaced) ==
  LET \* the time at s whose am or pm is at a: the position after it, 0 for no match
      TimeEnd(s, n, a) == IF n > 0 /\ IsMeridiem(t, a) THEN a + 2 ELSE 0
      After(s) == TimeEnd(s, ClockDigits(t, s), SkipSpaces(t, s + ClockDigits(t, s) + 3))
      Second(d, n, s1, e1, s2) ==
        IF After(s2) = 0 THEN <<>>
        ELSE <<ParseInt(SubSeq(t, d, d + n - 1)), SubSeq(t, s1, e1 - 1), SubSeq(t, s2, After(s2) - 1)>>
      Dash(d, n, s1, e1, h) ==
        IF e1 = 0 \/ h > Len(t) \/ CharAt(t, h) # "-" THEN <<>>
        ELSE Second(d, n, s1, e1, SkipSpaces(t, h + 1))
      First(d, n, s1) == Dash(d, n, s1, After(s1), SkipSpaces(t, After(s1)))
      At(d, n, a) ==
        IF \/ a > Len(t)
           \/ CharAt(t, a) # "@"
           \/ spaced /\ (a = d + n \/ SkipSpaces(t, a + 1) = a + 1)
        THEN <<>>
        ELSE First(d, n, SkipSpaces(t, a + 1))
      Digits(d) == IF IsDigitAt(t, d + 1) THEN 2 ELSE 1
      Day_(d) ==
        IF d = j \/ ~IsDigitAt(t, d) \/ IsDigitAt(t, d + Digits(d)) THEN <<>>
        ELSE At(d, Digits(d), SkipSpaces(t, d + Digits(d)))
  IN  Day_(SkipSpaces(t, j))

\* urljoin(base, href) of urllib.parse for a base that is a scheme and a
\* host, and an href that is empty, absolute, a path from the root, or a
\* relative path without dot segments
urljoin(base, href) ==
  IF href = "" THEN base
  ELSE IF Contains("://", href) THEN href
  ELSE IF CharAt(href, 1) = "/" THEN base \o href
  ELSE base \o "/" \o href

SKIP_TITLES == {"red door coffee", "happy hour", "private event"}

\* DT_RE.search(block_text): <<>>, or <<month number, day, start, end>>
DT_RE_search(block_text) ==
  LET Found(k, dm) == IF k = 0 \/ dm = <<>> THEN <<>> ELSE <<k>> \o dm
      At(i, k) ==
        IF k = 0 \/ ~WordBoundary(block_text, i) THEN <<>>
        ELSE Found(k, DayTimesFrom(block_text, i + Len(MONTHS[k]), FALSE))
      Lowered(l) ==
        Bind({ i \in 1..Len(l) : At(i, MonthNameAt(l, i)) # <<>> }, LAMBDA hits :
          IF hits = {} THEN <<>>
          ELSE Bind(CHOOSE i \in hits : \A j \in hits : i <= j, LAMBDA i :
                 At(i, MonthNameAt(l, i))))
  IN  Lowered(Lower(block_text))

\* to_24h(s) of scrape_minna.py: <<>> when strptime raises ValueError, else
\* the text returned.  s is a group of DT_RE: \d{1,2}:\d{2}\s*(?:am|pm)
minna_to_24h(s) ==
  LET Clock(l, n, h, mi) ==
        IF h < 1 \/ h > 12 \/ mi > 59 \/ CharAt(l, n + 4) # " " THEN <<>>
        ELSE <<FormatInt((h % 12) + (IF SubSeq(l, Len(l) - 1, Len(l)) = "pm" THEN 12 ELSE 0), 2)
                 \o ":" \o SubSeq(l, n + 2, n + 3)>>
      Lowered(l, n) ==
        Clock(l, n, ParseInt(SubSeq(l, 1, n)), ParseInt(SubSeq(l, n + 2, n + 3)))
  IN  Bind(Lower(Strip(s)), LAMBDA l :
        IF ClockDigits(l, 1) = 0 THEN <<>> ELSE Lowered(l, ClockDigits(l, 1)))

Walked(kind, year, row) == [kind |-> kind, year |-> year, row |-> row]

\* The body of the loop of scrape_minna.main on the element el with the
\* running year: "header" with the new year, "skip" for a continue, "raise"
\* when dt.date or to_24h raises, "row" with the dict appended.  An element
\* is its tag name, its text, whether it holds a link, the href of the link
\* and the text of its parent; the text of the link is the element's.
minna_element_first_header(el, year, today_year) ==
  LET Row(dm, st, et) ==
        IF ~ValidDate(year, dm[1], dm[2]) \/ st = <<>> \/ et = <<>>
        THEN Walked("raise", year, <<>>)
        ELSE Walked("row", year,
               <<[date |-> normalize_iso(year, dm[1], dm[2]),
                  venue |-> "111 Minna Gallery",
                  title |-> Strip(el.text),
                  category |-> minna_guess_category(Strip(el.text)),
                  start_time |-> st[1],
                  end_time |-> et[1],
                  event_url |-> urljoin("https://111minnagallery.com", el.href)]>>)
      Dated(dm) ==
        IF dm = <<>> THEN Walked("skip", year, <<>>)
        ELSE Row(dm, minna_to_24h(dm[3]), minna_to_24h(dm[4]))
      Element(m) ==
        IF m # <<>> THEN Walked("header", IF year = today_year THEN m[2] ELSE year, <<>>)
        ELSE IF \/ el.name \notin {"h3", "h4"}
                \/ ~el.link
                \/ Strip(el.text) = ""
                \/ Lower(Strip(el.text)) \in SKIP_TITLES
             THEN Walked("skip", year, <<>>)
        ELSE Dated(DT_RE_search(el.block))
  IN  Element(MonthYearHeader(el.text))

minna_element(el, year, today_year) ==
  LET Row(dm, st, et) ==
        IF ~ValidDate(year, dm[1], dm[2]) \/ st = <<>> \/ et = <<>>
        THEN Walked("raise", year, <<>>)
        ELSE Walked("row", year,
               <<[date |-> normalize_iso(year, dm[1], dm[2]),
                  venue |-> "111 Minna Gallery",
                  title |-> Strip(el.text),
                  category |-> minna_guess_category(Strip(el.text)),
                  start_time |-> st[1],
                  end_time |-> et[1],
                  event_url |-> urljoin("https://111minnagallery.com", el.href)]>>)
      Dated(dm) ==
        IF dm = <<>> THEN Walked("skip", year, <<>>)
        ELSE Row(dm, minna_to_24h(dm[3]), minna_to_24h(dm[4]))
      Element(m) ==
        IF m # <<>> THEN Walked("header", m[2], <<>>)
        ELSE IF \/ el.name \notin {"h3", "h4"}
                \/ ~el.link
                \/ Strip(el.text) = ""
                \/ Lower(Strip(el.text)) \in SKIP_TITLES
             THEN Walked("skip", year, <<>>)
        ELSE Dated(DT_RE_search(el.block))
  IN  Element(MonthYearHeader(el.text))

RECURSIVE minna_dedupe_loop(_, _, _)
\* The dedupe loop of scrape_minna.main
minna_dedupe_loop(rows, seen, out) ==
  IF rows = <<>> THEN out
  ELSE Bind(<<rows[1].date, Lower(rows[1].title), rows[1].start_time, rows[1].event_url>>, LAMBDA k :
         IF k \in seen THEN minna_dedupe_loop(Tail(rows), seen, out)
         ELSE minna_dedupe_loop(Tail(rows), seen \cup {k}, Append(out, rows[1])))

\* out.sort(key=lambda x: (x["date"], x["start_time"], x["title"].lower()))
minna_sort(out) ==
  Items(StableSort([ i \in 1..Len(out) |->
    <<<<out[i].date, out[i].start_time, Lower(out[i].title)>>, out[i]>> ]))

\* FEATURED_TIME_RE.search(line): <<>>, or <<month word, day, start, end>>
FEATURED_TIME_RE_search(line) ==
  LET Found(i, e, dm) == IF dm = <<>> THEN <<>> ELSE <<SubSeq(line, i, e - 1)>> \o dm
      Month(i, e) ==
        IF e = i THEN <<>> ELSE Found(i, e, DayTimesFrom(line, e, TRUE))
      Word(i) == Month(i, LettersEnd(line, i))
      At(i) ==
        IF \/ ~WordBoundary(line, i)
           \/ i + 7 > Len(line)
           \/ Lower(SubSeq(line, i, i + 7)) # "featured"
           \/ SkipSpaces(line, i + 8) = i + 8
        THEN <<>>
        ELSE Word(SkipSpaces(line, i + 8))
  IN  Bind({ i \in 1..Len(line) : At(i) # <<>> }, LAMBDA hits :
        IF hits = {} THEN <<>> ELSE At(CHOOSE i \in hits : \A j \in hits : i <= j))

\* _infer_price(notes)
_infer_price(notes) ==
  LET Price(n) ==
        IF /\ \/ Contains("tickets are free", n)
              \/ Contains("ticket is free", n)
              \/ Contains("free", n)
           /\ \/ Contains("tickets are free", n)
              \/ Contains("ticket is free", n)
              \/ Contains("free, but", n)
              \/ Contains("free but", n)
        THEN "Free"
        ELSE ""
  IN  Price(Lower(notes))

\* The body of the loop of _extract_events_from_page on the heading el with
\* current_year, None being <<>>: "header" for an h3 that sets current_year,
\* "skip" for a continue, "raise" when dateutil raises ParserError, "row"
\* with the dict appended.  A heading is its tag name, its text, whether it
\* holds a link with an href, that href, and the strings that find_next
\* yields after it, none of them empty.  dateutil's parser is a library: of its behaviour the
\* model keeps that a month word it does not know, a day the month lacks, an
\* hour above 12 before am or pm and a minute above 59 raise, for years of
\* four digits.
mission_element(el, current_year, now_year) ==
  LET VENUE_DEFAULT == "Mission Comics & Art"
      Lines(n) == [ i \in 1..(IF Len(el.lines) < n THEN Len(el.lines) ELSE n) |->
                      SingleSpaced(el.lines[i]) ]
      First(S) == CHOOSE i \in S : \A j \in S : i <= j
      Featured(ls) ==
        Bind({ i \in 1..Len(ls) : FEATURED_TIME_RE_search(ls[i]) # <<>> }, LAMBDA hits :
          IF hits = {} THEN <<>> ELSE FEATURED_TIME_RE_search(ls[First(hits)]))
      Notes(ls) ==
        Bind({ i \in 1..Len(ls) :
                 /\ Len(ls[i]) > 40
                 /\ ~(Len(ls[i]) >= Len(VENUE_DEFAULT) /\ SubSeq(ls[i], 1, Len(VENUE_DEFAULT)) = VENUE_DEFAULT)
                 /\ \E j \in 1..(i - 1) :
                      Len(ls[j]) >= Len(VENUE_DEFAULT) /\ SubSeq(ls[j], 1, Len(VENUE_DEFAULT)) = VENUE_DEFAULT },
             LAMBDA hits : IF hits = {} THEN "" ELSE ls[First(hits)])
      Month(word) ==
        IF \E k \in 1..Len(MONTHS) : word \in {MONTHS[k], MONTHS_ABBR[k]}
        THEN CHOOSE k \in 1..Len(MONTHS) : word \in {MONTHS[k], MONTHS_ABBR[k]}
        ELSE 0
      Clock(l, n, h, mi) ==
        IF h > 12 \/ mi > 59 THEN <<>>
        ELSE <<FormatInt((h % 12) + (IF SubSeq(l, Len(l) - 1, Len(l)) = "pm" THEN 12 ELSE 0), 2)
                 \o ":" \o SubSeq(l, n + 2, n + 3)>>
      Time(l, n) == Clock(l, n, ParseInt(SubSeq(l, 1, n)), ParseInt(SubSeq(l, n + 2, n + 3)))
      Row(title, year, mm, day, st, et, notes) ==
        IF mm = 0 \/ ~ValidDate(year, mm, day) \/ st = <<>> \/ et = <<>>
        THEN Walked("raise", current_year, <<>>)
        ELSE Walked("row", current_year,
               <<[date |-> normalize_iso(year, mm, day),
                  venue |-> VENUE_DEFAULT,
                  title |-> title,
                  category |-> _infer_category(title, notes),
                  start_time |-> st[1],
                  end_time |-> et[1],
                  price_text |-> _infer_price(notes),
                  event_url |-> IF el.link THEN urljoin("https://missionlocal.org", el.href) ELSE "",
                  notes |-> notes]>>)
      Event(title, fm) ==
        IF title = "" \/ fm = <<>> THEN Walked("skip", current_year, <<>>)
        ELSE Row(title, IF current_year = <<>> THEN now_year ELSE current_year[1],
                 Month(Lower(fm[1])), fm[2],
                 Time(Lower(fm[3]), ClockDigits(fm[3], 1)), Time(Lower(fm[4]), ClockDigits(fm[4], 1)),
                 Notes(Lines(60)))
      Header(m) ==
        IF m = <<>> THEN Walked("skip", current_year, <<>>) ELSE Walked("header", <<m[2]>>, <<>>)
  IN  IF el.name = "h3" THEN Header(MonthYearHeader(SingleSpaced(el.text)))
      ELSE IF el.name = "h4" THEN Event(SingleSpaced(el.text), Featured(Lines(25)))
      ELSE Walked("skip", current_year, <<>>)

RECURSIVE mission_dedup(_, _)
\* The dict of _extract_events_from_page after its loop over events, as the
\* list of its values: a key keeps the place of its first event and the
\* value of its last
mission_dedup(events, dedup) ==
  IF events = <<>> THEN dedup
  ELSE Bind(<<events[1].event_url, events[1].date, events[1].title>>, LAMBDA k :
         mission_dedup(Tail(events),
           IF \E i \in 1..Len(dedup) : <<dedup[i].event_url, dedup[i].date, dedup[i].title>> = k
           THEN [ i \in 1..Len(dedup) |->
                  IF <<dedup[i].event_url, dedup[i].date, dedup[i].title>> = k THEN events[1] ELSE dedup[i] ]
           ELSE Append(dedup, events[1])))

RECURSIVE mission_walk(_, _, _, _)
\* The loop of _extract_events_from_page from heading i on: the events
\* list after it, or "raise"
mission_walk(els, i, walked, now_year) ==
  IF walked.kind = "raise" \/ i > Len(els) THEN walked
  ELSE Bind(mission_element(els[i], walked.year, now_year), LAMBDA w :
         mission_walk(els, i + 1, Walked(w.kind, w.year, walked.row \o w.row), now_year))

\* _extract_events_from_page(html) on the headings of the page
_extract_events_from_page(els, now_year) ==
  Bind(mission_walk(els, 1, Walked("skip", <<>>, <<>>), now_year), LAMBDA walked :
    IF walked.kind = "raise" THEN [raised |-> TRUE, events |-> <<>>]
    ELSE [raised |-> FALSE, events |-> mission_dedup(walked.row, <<>>)])

\* _find_next_link(soup): None is <<>>.  Of a page the model keeps the href
\* of the first element the selector matches, <<>> when it matches none,
\* and the anchors with an href, each with its text
_find_next_link(page) ==
  LET hits == { i \in 1..Len(page.anchors) :
                  Lower(SingleSpaced(page.anchors[i].text)) = "next events" }
  IN  IF page.nav # <<>> /\ page.nav[1] # ""
      THEN <<urljoin("https://missionlocal.org", page.nav[1])>>
      ELSE IF hits = {} THEN <<>>
      ELSE <<urljoin("https://missionlocal.org",
                     page.anchors[CHOOSE i \in hits : \A j \in hits : i <= j].href)>>

\* The loop of scrape goes on without its seen test
ScrapeLoopsUnseen(n, url, seen) == n < 10

\* scrape, lines 213-215: the loop enters its body
ScrapeLoops(n, url, seen) == n < 10 /\ url \notin seen

\* all_events.sort(key=lambda r: (r["date"], r["start_time"], r["title"]))
mission_sort(all_events) ==
  Items(StableSort([ i \in 1..Len(all_events) |->
    <<<<all_events[i].date, all_events[i].start_time, all_events[i].title>>, all_events[i]>> ]))

(***************************************************************************)
(* State                                                                   *)
(***************************************************************************)

VARIABLES
  prog,         \* what a behaviour runs: "merge", "sketchboard", "case",
                \* "date" for a call of parse_date_any, "times" for a
                \* call of a time range parser, "rule" for a call of
                \* expand_rule_to_dates, "syzygy" for scrape_syzygy
  pc,           \* where its main is; merge_csv: "idle", "open", "header",
                \* "rows", "done"; the scrapers: "idle", "done"
  events_csv,   \* events.csv on disk
  auto_csv,     \* sketchboard_auto.csv on disk
  merged,       \* merge_csv.main: merged
  uniq_seen,    \* merge_csv.main: uniq after the loop, before the sort
  uniq,         \* merge_csv.main: uniq after the sort
  wbuf,         \* write_csv: what was written and is not yet flushed to disk
  written,      \* write_csv: the number of rows written
  started,      \* events.csv as the run in progress read it
  unchanged,    \* sketchboard_auto.csv is as the last finished run read it
  rerun,        \* the run in progress began with unchanged
  rows_in,      \* a scraper's main: the records handed to dedupe;
                \* scrape_syzygy: the links of the page
  rows_uniq,    \* dedupe: its list after the loop, before the sort
  rows_out,     \* a scraper's main: the rows written
  text,         \* the argument of the call: a text, a times text, a rule
  today,        \* date.today(); expand_rule_to_dates: window_start
  window_end,   \* expand_rule_to_dates: window_end
  parsed        \* how the call ended

mergeVars ==
  <<events_csv, auto_csv, merged, uniq_seen, uniq, wbuf, written, started, unchanged, rerun>>

scraperVars == <<rows_in, rows_uniq, rows_out>>

dateVars == <<text, today, window_end, parsed>>

vars == <<prog, pc, mergeVars, scraperVars, dateVars>>

NoBuffer == [header |-> FALSE, rows |-> <<>>]

MergeIdle ==
  /\ merged = <<>>
  /\ uniq_seen = <<>>
  /\ uniq = <<>>
  /\ wbuf = NoBuffer
  /\ written = 0
  /\ started = events_csv
  /\ unchanged = FALSE
  /\ rerun = FALSE

ScraperIdle ==
  /\ rows_in = <<>>
  /\ rows_uniq = <<>>
  /\ rows_out = <<>>

NotParsed == [returned |-> "", raised |-> FALSE, grammar |-> 0, searched |-> {}]

DateIdle ==
  /\ text = ""
  /\ today = Today
  /\ window_end = Today
  /\ parsed = NotParsed

\* merge_csv.py is run on some events.csv and some sketchboard_auto.csv
MergeInit ==
  /\ prog = "merge"
  /\ pc = "idle"
  /\ events_csv \in BaseFiles
  /\ auto_csv \in BatchFiles
  /\ MergeIdle
  /\ ScraperIdle
  /\ DateIdle

\* fetch_sketchboard_drinkdraw.py is run and its pages yield some events
SketchboardInit ==
  /\ prog = "sketchboard"
  /\ pc = "idle"
  /\ events_csv = CsvFile(<<>>)
  /\ auto_csv = MissingFile
  /\ MergeIdle
  /\ rows_in \in SeqsUpTo(SketchboardEvents, MaxEvents)
  /\ rows_uniq = <<>>
  /\ rows_out = <<>>
  /\ DateIdle

\* scrape_case.py is run and its pages yield some product cards
CaseInit ==
  /\ prog = "case"
  /\ pc = "idle"
  /\ events_csv = CsvFile(<<>>)
  /\ auto_csv = MissingFile
  /\ MergeIdle
  /\ rows_in \in SeqsUpTo(CaseCards, MaxEvents)
  /\ rows_uniq = <<>>
  /\ rows_out = <<>>
  /\ DateIdle

\* parse_date_any is called on the text of some block of a page
DateInit ==
  /\ prog = "date"
  /\ pc = "idle"
  /\ events_csv = CsvFile(<<>>)
  /\ auto_csv = MissingFile
  /\ MergeIdle
  /\ ScraperIdle
  /\ \E call \in DateCalls :
       /\ text = call[1]
       /\ today = call[2]
  /\ window_end = today
  /\ parsed = NotParsed

(***************************************************************************)
(* merge_csv.py: main                                                      *)
(***************************************************************************)

\* main, lines 38-58: both files read, the result computed in memory
MainRead ==
  /\ prog = "merge"
  /\ pc = "idle"
  /\ \E base_rows \in {read_csv(events_csv)}, auto_rows \in {read_csv(auto_csv)} :
       \E m \in {Cleaned(base_rows) \o auto_rows} :
         \E u \in {UniqLoop(m, {}, <<>>)} :
           /\ merged' = m
           /\ uniq_seen' = u
           /\ uniq' = SortUniq(u)
  /\ started' = events_csv
  /\ rerun' = unchanged
  /\ pc' = "open"
  /\ UNCHANGED <<prog, events_csv, auto_csv, wbuf, written, unchanged, scraperVars, dateVars>>

\* write_csv, line 18: open(p, "w") truncates events.csv
WriteOpen ==
  /\ prog = "merge"
  /\ pc = "open"
  /\ events_csv' = EmptyFile
  /\ wbuf' = NoBuffer
  /\ written' = 0
  /\ pc' = "header"
  /\ UNCHANGED <<prog, auto_csv, merged, uniq_seen, uniq, started, unchanged, rerun, scraperVars, dateVars>>

\* write_csv, line 20: writeheader
WriteHeader ==
  /\ pc = "header"
  /\ wbuf' = [wbuf EXCEPT !.header = TRUE]
  /\ pc' = "rows"
  /\ UNCHANGED <<prog, events_csv, auto_csv, merged, uniq_seen, uniq, written, started,
                 unchanged, rerun, scraperVars, dateVars>>

\* write_csv, lines 21-22: one writerow
WriteRow ==
  /\ pc = "rows"
  /\ written < Len(uniq)
  /\ wbuf' = [wbuf EXCEPT !.rows = Append(@, CsvLine(uniq[written + 1]))]
  /\ written' = written + 1
  /\ UNCHANGED <<prog, pc, events_csv, auto_csv, merged, uniq_seen, uniq, started, unchanged,
                 rerun, scraperVars, dateVars>>

Flushed(file, buf) ==
  [exists |-> TRUE, header |-> file.header \/ buf.header, rows |-> file.rows \o buf.rows]

\* The file object's buffer reaches the disk when it fills, at any point of
\* the writing.
Flush ==
  /\ pc = "rows"
  /\ wbuf # NoBuffer
  /\ events_csv' = Flushed(events_csv, wbuf)
  /\ wbuf' = NoBuffer
  /\ UNCHANGED <<prog, pc, auto_csv, merged, uniq_seen, uniq, written, started, unchanged,
                 rerun, scraperVars, dateVars>>

\* write_csv: leaving the with block flushes and closes the file
WriteClose ==
  /\ pc = "rows"
  /\ written = Len(uniq)
  /\ events_csv' = Flushed(events_csv, wbuf)
  /\ wbuf' = NoBuffer
  /\ pc' = "done"
  /\ UNCHANGED <<prog, auto_csv, merged, uniq_seen, uniq, written, started, unchanged, rerun,
                 scraperVars, dateVars>>

\* main returns and the process exits: its variables are gone
MainReturn ==
  /\ prog = "merge"
  /\ pc = "done"
  /\ pc' = "idle"
  /\ merged' = <<>>
  /\ uniq_seen' = <<>>
  /\ uniq' = <<>>
  /\ written' = 0
  /\ started' = events_csv
  /\ rerun' = FALSE
  /\ unchanged' = TRUE
  /\ UNCHANGED <<prog, events_csv, auto_csv, wbuf, scraperVars, dateVars>>

\* Between two runs the importer's output replaces sketchboard_auto.csv, or
\* the file is removed.
ReplaceBatch ==
  /\ prog = "merge"
  /\ pc = "idle"
  /\ unchanged
  /\ auto_csv' \in BatchFiles \ {auto_csv}
  /\ unchanged' = FALSE
  /\ UNCHANGED <<prog, pc, events_csv, merged, uniq_seen, uniq, wbuf, written, started, rerun,
                 scraperVars, dateVars>>

(***************************************************************************)
(* The scrapers' main, from the scraped records on                         *)
(***************************************************************************)

\* fetch_sketchboard_drinkdraw.main, lines 268-273: dedupe and write
SketchboardMain ==
  /\ prog = "sketchboard"
  /\ pc = "idle"
  /\ \E u \in {sb_dedupe_loop(rows_in, {}, <<>>)} :
       /\ rows_uniq' = u
       /\ rows_out' = sb_sort(u)
  /\ pc' = "done"
  /\ UNCHANGED <<prog, mergeVars, rows_in, dateVars>>

\* scrape_case.main, lines 183-188: dedupe and write
CaseMain ==
  /\ prog = "case"
  /\ pc = "idle"
  /\ \E u \in {case_dedupe_loop(rows_in, {}, <<>>)} :
       /\ rows_uniq' = u
       /\ rows_out' = case_sort(u)
  /\ pc' = "done"
  /\ UNCHANGED <<prog, mergeVars, rows_in, dateVars>>

(***************************************************************************)
(* fetch_sketchboard_drinkdraw.py: a call of parse_date_any                *)
(***************************************************************************)

\* scrape_url, line 216: parse_date_any(block_text)
ParseDate ==
  /\ prog = "date"
  /\ pc = "idle"
  /\ parsed' = parse_date_any(text, today)
  /\ pc' = "done"
  /\ UNCHANGED <<prog, mergeVars, scraperVars, text, today, window_end>>

(***************************************************************************)
(* Calls of the time range parsers, of expand_rule_to_dates, and runs of   *)
(* scrape_syzygy                                                           *)
(***************************************************************************)

\* A time range parser is called on a times text, expand_rule_to_dates on a
\* rule and a window, or scrape_syzygy is run on a page
ParsersInit ==
  LET Hours   == { Decimal(h) : h \in 1..12 }
      Clocks  == Hours \cup {"0", "13", "6:30", "8:30", "12:45", "7:75", "06", "noon", ""}
      Ranges  == { s \o "-" \o e \o ap : s \in Clocks, e \in Clocks, ap \in {"am", "pm", ""} }
                 \cup {"11am-1pm", "12pm-4pm", "7 - 10 PM", "6:30 - 8:30 pm", "Every Monday 7-10pm",
                       "tba", "6pm-late", "doors 7pm", "7-8-9pm", "6--8pm"}
      Names   == {"Monday", "Tuesday", "Wednesday", "Thursday", "Friday", "Saturday", "sunday"}
      Nth     == {"1st", "2nd", "3rd", "4th", "First", "second", "third", "fourth"}
      Rules   == { "Every " \o w : w \in Names }
                 \cup { " every " \o Lower(w) \o ", 7-10pm" : w \in Names }
                 \cup { o \o " " \o w : o \in Nth, w \in Names }
                 \cup { "Every other " \o w : w \in Names }
                 \cup { o \o " " \o w : o \in {"5th", "fifth"}, w \in Names }
                 \cup {"every 2nd Wednesday, 6-9pm", "Third Thursday of every month",
                       "2nd and 4th every other Friday", "EVERY OTHER MONDAY 7-10pm",
                       "Every Friday of the month", "Every Monday, second floor",
                       "every day", "Tuesdays", "last Friday"}
      Starts  == {Day(2024, 1, 1), Day(2024, 2, 26), Today, Day(2026, 12, 20)}
      Windows == { <<d, AddDays(d, k)>> : d \in Starts, k \in {0, 1, 7, 31, ROLLING_DAYS} }
                 \cup {<<Day(2026, 3, 15), Day(2026, 3, 1)>>}
      Texts   == {"Zine Fair 11-14-2026", "11-14-2026", "Game Night 02-30-2027",
                  "Old Show 10-31-2026", "Drink and Draw 12-05-2026", "Talk",
                  "Open Studio Every Monday, 7-10pm", "open studio every monday 7-10PM",
                  "Every Monday, 7-10pm", "Zine Club - Every other Wednesday, 6-9pm",
                  "Hobby Hang, 2nd Saturday 11-12pm"}
      Links   == { [section |-> sec, text |-> t, href |-> "/events"] :
                     sec \in {"special", "recurring"}, t \in Texts }
  IN  /\ pc = "idle"
      /\ events_csv = CsvFile(<<>>)
      /\ auto_csv = MissingFile
      /\ MergeIdle
      /\ rows_uniq = <<>>
      /\ rows_out = <<>>
      /\ parsed = NotParsed
      /\ \/ /\ prog = "times"
            /\ text \in Ranges
            /\ today = Today
            /\ window_end = Today
            /\ rows_in = <<>>
         \/ /\ prog = "rule"
            /\ text \in Rules
            /\ \E w \in Windows :
                 /\ today = w[1]
                 /\ window_end = w[2]
            /\ rows_in = <<>>
         \/ /\ prog = "syzygy"
            /\ text = ""
            /\ today \in {Today, Day(2026, 12, 20)}
            /\ window_end = today
            /\ rows_in \in SeqsUpTo(Links, MaxBatch)

\* scrape_syzygy, line 299: parse_time_range(rule)
SyzygyTimes ==
  /\ prog = "times"
  /\ pc = "idle"
  /\ parsed' = [by |-> "syzygy", raised |-> FALSE, times |-> parse_time_range(text)]
  /\ pc' = "done"
  /\ UNCHANGED <<prog, mergeVars, scraperVars, text, today, window_end>>

\* scrape_url, line 225: parse_time_range_any(block_text)
SketchboardTimes ==
  /\ prog = "times"
  /\ pc = "idle"
  /\ parsed' = [by |-> "sketchboard", raised |-> FALSE, times |-> parse_time_range_any(text)]
  /\ pc' = "done"
  /\ UNCHANGED <<prog, mergeVars, scraperVars, text, today, window_end>>

\* scrape of scrape_arch.py, lines 249-272, for a date line whose times
\* group ([^,]+) is text and whose event_date (line 247) is 2027-03-07: the
\* times of the row appended to events, or raised
ArchTimes ==
  /\ prog = "times"
  /\ pc = "idle"
  /\ text # ""
  /\ ~Contains(",", text)
  /\ \E tr \in {_parse_time_range(text)} :
       parsed' = [by |-> "arch", raised |-> tr.raised,
                  times |-> IF tr.range # <<>> THEN tr.range ELSE <<"", "">>,
                  events |-> IF tr.raised THEN <<>>
                             ELSE <<[date |-> "2027-03-07",
                                     start_time |-> IF tr.range # <<>> THEN tr.range[1] ELSE "",
                                     end_time   |-> IF tr.range # <<>> THEN tr.range[2] ELSE ""]>>]
  /\ pc' = "done"
  /\ UNCHANGED <<prog, mergeVars, scraperVars, text, today, window_end>>

\* scrape_syzygy, line 294: expand_rule_to_dates(rule, window_start, window_end)
ExpandRule ==
  /\ prog = "rule"
  /\ pc = "idle"
  /\ parsed' = expand_rule_to_dates(text, today, window_end)
  /\ pc' = "done"
  /\ UNCHANGED <<prog, mergeVars, scraperVars, text, today, window_end>>

\* main of scrape_syzygy.py, lines 350-353: scrape_syzygy() and write_csv
ScrapeSyzygy ==
  /\ prog = "syzygy"
  /\ pc = "idle"
  /\ \E r \in {scrape_syzygy(SelectSeq(rows_in, LAMBDA a : a.section = "special"),
                               SelectSeq(rows_in, LAMBDA a : a.section = "recurring"),
                               today)} :
       /\ rows_out' = r.events
       /\ pc' = IF r.raised THEN "raised" ELSE "done"
  /\ UNCHANGED <<prog, mergeVars, rows_in, rows_uniq, dateVars>>

MaxWords == 2

MaxCats == 2

MaxPageEvents == 1

\* scrape_case.PAGES
PAGES ==
  << <<"In Person", "https://caseformaking.com/collections/art-room-workshops">>,
     <<"Online", "https://caseformaking.com/collections/online-workshop">> >>

\* A classifier is called on a title and a text (the block text of the link
\* for classify_event, the notes for _infer_category), or on the categories
\* a page or a feed item lists; or a scraper's main is run, each of its
\* pages either failing (the request, the status or the parsing raises) or
\* yielding some events.
SourcesInit ==
  LET Words  == {"Figure", "drawing", "Drink", "and", "Draw", "Madrone", "sketch", "Zine",
                 "Opening", "life"}
      Titles == { JoinWords(w) : w \in SeqsUpTo(Words, MaxWords) }
      Blocks == {"", "Life Drawing  Sat 2026-03-07", " drink and draw at the bar", "Madrone Art Bar",
                 "Book signing and party", "Tickets at the door"}
      Cats   == {"signings", "Party", "Kids", "LIVE STREAM", "New Releases"}
      Failed == [raised |-> TRUE, events |-> <<>>]
      Pages(Events, n) ==
        [ 1..n -> {Failed} \cup { [raised |-> FALSE, events |-> e] :
                                    e \in SeqsUpTo(Events, MaxPageEvents) } ]
  IN  /\ pc = "idle"
      /\ events_csv = CsvFile(<<>>)
      /\ auto_csv = MissingFile
      /\ MergeIdle
      /\ rows_uniq = <<>>
      /\ rows_out = <<>>
      /\ parsed = NotParsed
      /\ today = Today
      /\ window_end = Today
      /\ \/ /\ prog = "classify"
            /\ text \in Titles
            /\ \E b \in Blocks : rows_in = <<b>>
         \/ /\ prog = "categories"
            /\ text = ""
            /\ \E c \in SeqsUpTo(Cats, MaxCats), l \in BOOLEAN :
                 rows_in = <<[list |-> l, items |-> c]>>
         \/ /\ prog = "sketchboard_run"
            /\ text = ""
            /\ rows_in \in Pages(SketchboardEvents, Len(URLS))
         \/ /\ prog = "case_run"
            /\ text = ""
            /\ rows_in \in Pages(CaseCards, Len(PAGES))

\* fetch_sketchboard_drinkdraw.scrape_url on one candidate: the classifier's
\* answer, and the title and category of the dict appended (the date found)
ClassifyEvent ==
  /\ prog = "classify"
  /\ pc = "idle"
  /\ \E info \in {classify_event(text, rows_in[1])} :
       /\ parsed' = [by |-> "sketchboard",
                     category |-> IF info = <<>> THEN <<>> ELSE <<info[1].category>>]
       /\ rows_out' = IF info = <<>> THEN <<>>
                      ELSE <<[title |-> text, category |-> info[1].category]>>
  /\ pc' = "done"
  /\ UNCHANGED <<prog, mergeVars, rows_in, rows_uniq, text, today, window_end>>

\* scrape_case.extract on one card: the title and category of the dict appended
CaseGuess ==
  /\ prog = "classify"
  /\ pc = "idle"
  /\ text # ""
  /\ parsed' = [by |-> "case", category |-> <<guess_category(text)>>]
  /\ rows_out' = <<[title |-> text, category |-> guess_category(text)]>>
  /\ pc' = "done"
  /\ UNCHANGED <<prog, mergeVars, rows_in, rows_uniq, text, today, window_end>>

\* scrape_minna.main on one event block: the title and category of the dict appended
MinnaGuess ==
  /\ prog = "classify"
  /\ pc = "idle"
  /\ Strip(text) # ""
  /\ parsed' = [by |-> "minna", category |-> <<minna_guess_category(Strip(text))>>]
  /\ rows_out' = <<[title |-> Strip(text), category |-> minna_guess_category(Strip(text))]>>
  /\ pc' = "done"
  /\ UNCHANGED <<prog, mergeVars, rows_in, rows_uniq, text, today, window_end>>

\* scrape_missioncomics._extract_events_from_page on one h4: the title and
\* category of the dict appended, the notes being rows_in[1]
MissionInfer ==
  /\ prog = "classify"
  /\ pc = "idle"
  /\ text # ""
  /\ parsed' = [by |-> "missioncomics", category |-> <<_infer_category(text, rows_in[1])>>]
  /\ rows_out' = <<[title |-> text, category |-> _infer_category(text, rows_in[1])]>>
  /\ pc' = "done"
  /\ UNCHANGED <<prog, mergeVars, rows_in, rows_uniq, text, today, window_end>>

\* scrape_comix._parse_event and scrape on one event page: the category of
\* the dict appended, the list of _extract_categories being rows_in[1].items
ChooseCategory ==
  /\ prog = "categories"
  /\ pc = "idle"
  /\ rows_in[1].list
  /\ parsed' = [by |-> "comix", category |-> <<_choose_category(rows_in[1].items)>>]
  /\ rows_out' = <<[category |-> _choose_category(rows_in[1].items)]>>
  /\ pc' = "done"
  /\ UNCHANGED <<prog, mergeVars, rows_in, rows_uniq, text, today, window_end>>

\* fetch_sketchboard.main on one item of the feed: the category of the dict
\* appended, item.get("categories") being rows_in[1]
FirstCategory ==
  /\ prog = "categories"
  /\ pc = "idle"
  /\ parsed' = [by |-> "sketchboard_feed", category |-> <<first_category(rows_in[1])>>]
  /\ rows_out' = <<[category |-> first_category(rows_in[1])]>>
  /\ pc' = "done"
  /\ UNCHANGED <<prog, mergeVars, rows_in, rows_uniq, text, today, window_end>>

Init == MergeInit \/ SketchboardInit \/ CaseInit

Next ==
  \/ MainRead
  \/ WriteOpen
  \/ WriteHeader
  \/ WriteRow
  \/ Flush
  \/ WriteClose
  \/ MainReturn
  \/ ReplaceBatch
  \/ SketchboardMain
  \/ CaseMain

Spec == Init /\ [][Next]_vars

DateNext == ParseDate

\* The calls of parse_date_any alone
SpecDate == DateInit /\ [][DateNext]_vars

ParsersNext ==
  \/ SyzygyTimes
  \/ SketchboardTimes
  \/ ArchTimes
  \/ ExpandRule
  \/ ScrapeSyzygy

SpecParsers == ParsersInit /\ [][ParsersNext]_vars

RECURSIVE Extended(_)
\* all_events.extend(...) over the pages that did not fail
Extended(pages) ==
  IF pages = <<>> THEN <<>>
  ELSE (IF Head(pages).raised THEN <<>> ELSE Head(pages).events) \o Extended(Tail(pages))

\* fetch_sketchboard_drinkdraw.main: a page that raises is warned about and
\* skipped, the events of the others are de-duplicated and written
SketchboardRun ==
  /\ prog = "sketchboard_run"
  /\ pc = "idle"
  /\ rows_out' = sb_dedupe(Extended(rows_in))
  /\ parsed' = [by |-> "sketchboard", written |-> TRUE,
                warned |-> { URLS[n] : n \in { k \in 1..Len(URLS) : rows_in[k].raised } }]
  /\ pc' = "done"
  /\ UNCHANGED <<prog, mergeVars, rows_in, rows_uniq, text, today, window_end>>

\* scrape_case.main: the first page that raises ends main with its
\* exception, before case_events.csv is opened
CaseRun ==
  /\ prog = "case_run"
  /\ pc = "idle"
  /\ IF \E n \in 1..Len(PAGES) : rows_in[n].raised
     THEN /\ rows_out' = <<>>
          /\ parsed' = [by |-> "case", written |-> FALSE, warned |-> {}]
          /\ pc' = "raised"
     ELSE /\ rows_out' = case_dedupe(Extended(rows_in))
          /\ parsed' = [by |-> "case", written |-> TRUE, warned |-> {}]
          /\ pc' = "done"
  /\ UNCHANGED <<prog, mergeVars, rows_in, rows_uniq, text, today, window_end>>

SourcesNext ==
  \/ ClassifyEvent
  \/ CaseGuess
  \/ MinnaGuess
  \/ MissionInfer
  \/ ChooseCategory
  \/ FirstCategory
  \/ SketchboardRun
  \/ CaseRun

SpecSources == SourcesInit /\ [][SourcesNext]_vars

(***************************************************************************)
(* scrape_minna.main and scrape_missioncomics._extract_events_from_page,    *)
(* one element of the page per step                                         *)
(***************************************************************************)

MaxElements == 3

MinnaElements ==
  LET El(name, txt, link, block) ==
        [name |-> name, text |-> txt, link |-> link, href |-> "/event/x/", block |-> block]
  IN  { El("h2", "March 2026", FALSE, "March 2026 Figure night"),
        El("h3", "may 2027", FALSE, ""),
        El("div", "April  2025", FALSE, ""),
        El("h4", "Figure night", TRUE, "Figure night Featured March 12 @ 4:00 pm - 6:00 pm"),
        El("h3", "Opening", TRUE, "Opening December 31@11:30 AM - 12:15 am free"),
        El("h4", "Happy Hour", TRUE, "Happy Hour March 13 @ 5:00 pm - 7:00 pm"),
        El("h4", "Leap day draw", TRUE, "February 29 @ 12:00 pm - 1:00 pm"),
        El("h4", "DJ set", TRUE, "March 14 @ 9:00pm - 11:00pm"),
        El("h4", "Exhibit", FALSE, "March 15 @ 1:00 pm - 2:00 pm"),
        El("p", "Figure night", TRUE, "Marches 12 @ 4:00 pm - 6:00 pm") }

MissionElements ==
  LET El(name, txt, link, lines) ==
        [name |-> name, text |-> txt, link |-> link, href |-> "/event/signing/", lines |-> lines]
      About == "Join us for a zine release party with the artists in the gallery."
  IN  { El("h3", "March 2026", FALSE, <<"March 2026">>),
        El("h3", "May  2027", FALSE, <<>>),
        El("h3", "Upcoming", FALSE, <<>>),
        El("h4", "March 2025", FALSE, <<>>),
        El("h4", "Book Signing", TRUE,
           <<"Book Signing", "Featured March 12 @ 4:00 pm - 6:00 pm", "Mission Comics & Art", About>>),
        El("h4", "Zine Fest", TRUE, <<" ", "featured Dec 31  @ 11:30am-12:15 AM">>),
        El("h4", "Leap day sale", FALSE, <<"Featured February 29 @ 12:00 pm - 1:00 pm">>),
        El("h4", "Workshop", TRUE, <<"Featured Room 12 @ 4:00 pm - 6:00 pm">>),
        El("h4", "", TRUE, <<"Featured March 12 @ 4:00 pm - 6:00 pm">>) }

PagesInit ==
  /\ pc = "walk"
  /\ events_csv = CsvFile(<<>>)
  /\ auto_csv = MissingFile
  /\ MergeIdle
  /\ rows_uniq = <<>>
  /\ rows_out = <<>>
  /\ text = ""
  /\ today = Today
  /\ window_end = Today
  /\ \/ /\ prog = "minna"
        /\ rows_in \in SeqsUpTo(MinnaElements, MaxElements)
        /\ parsed = [at |-> 1, year |-> today.year]
     \/ /\ prog = "missioncomics"
        /\ rows_in \in SeqsUpTo(MissionElements, MaxElements)
        /\ parsed = [at |-> 1, year |-> <<>>]

\* One pass of the loop of scrape_minna.main; the exception of dt.date or
\* to_24h ends main before anything is written
MinnaElement ==
  /\ prog = "minna"
  /\ pc = "walk"
  /\ parsed.at <= Len(rows_in)
  /\ \E w \in {minna_element(rows_in[parsed.at], parsed.year, today.year)} :
         /\ pc' = IF w.kind = "raise" THEN "raised" ELSE "walk"
         /\ parsed' = IF w.kind = "raise" THEN parsed
                      ELSE [at |-> parsed.at + 1, year |-> w.year]
         /\ rows_uniq' = rows_uniq \o w.row
  /\ UNCHANGED <<prog, mergeVars, rows_in, rows_out, text, today, window_end>>

\* scrape_minna.main after its loop: dedupe, sort, write
MinnaWrite ==
  /\ prog = "minna"
  /\ pc = "walk"
  /\ parsed.at > Len(rows_in)
  /\ rows_out' = minna_sort(minna_dedupe_loop(rows_uniq, {}, <<>>))
  /\ pc' = "done"
  /\ UNCHANGED <<prog, mergeVars, rows_in, rows_uniq, text, today, window_end, parsed>>

\* One pass of the loop of _extract_events_from_page; dateutil's ParserError
\* ends scrape
MissionElement ==
  /\ prog = "missioncomics"
  /\ pc = "walk"
  /\ parsed.at <= Len(rows_in)
  /\ \E w \in {mission_element(rows_in[parsed.at], parsed.year, today.year)} :
         /\ pc' = IF w.kind = "raise" THEN "raised" ELSE "walk"
         /\ parsed' = IF w.kind = "raise" THEN parsed
                      ELSE [at |-> parsed.at + 1, year |-> w.year]
         /\ rows_uniq' = rows_uniq \o w.row
  /\ UNCHANGED <<prog, mergeVars, rows_in, rows_out, text, today, window_end>>

\* _extract_events_from_page after its loop: the values of the dict
MissionReturn ==
  /\ prog = "missioncomics"
  /\ pc = "walk"
  /\ parsed.at > Len(rows_in)
  /\ rows_out' = mission_dedup(rows_uniq, <<>>)
  /\ pc' = "done"
  /\ UNCHANGED <<prog, mergeVars, rows_in, rows_uniq, text, today, window_end, parsed>>

PagesNext ==
  \/ MinnaElement
  \/ MinnaWrite
  \/ MissionElement
  \/ MissionReturn

SpecPages == PagesInit /\ [][PagesNext]_vars

(***************************************************************************)
(* scrape_missioncomics.scrape, one page per step                           *)
(***************************************************************************)

START_URL == "https://missionlocal.org/venue/mission-comics-and-art/"

MaxPages == 12

\* The address of page i of the venue's list
PageUrl(i) ==
  IF i = 1 THEN START_URL ELSE START_URL \o "page/" \o Decimal(i) \o "/"

\* The sites scraped: pages 1..len, each linking to the next one, the last
\* linking to page back or, for back = 0, nowhere; the links are absolute or
\* from the root in the element the selector matches, or are anchors that
\* read "Next Events" beside an element with an empty href; the request for
\* page down, the first or the second, fails (none for down = 0)
Sites ==
  [len : 1..MaxPages, back : 0..MaxPages, down : 0..2, form : {"nav", "root", "text"}]

\* The page of the site at url, as _get and BeautifulSoup give it; no page
\* when the request fails or the site has no such address
PageAt(site, url) ==
  LET Href(i) == IF site.form = "nav" THEN PageUrl(i)
                 ELSE SubSeq(PageUrl(i), Len("https://missionlocal.org") + 1, Len(PageUrl(i)))
      Links(to) ==
        IF to = 0 THEN [nav |-> <<>>, anchors |-> <<[text |-> "Venue", href |-> "/venue/"]>>]
        ELSE IF site.form = "text"
             THEN [nav |-> <<"">>,
                   anchors |-> <<[text |-> "Previous Events", href |-> "/venue/"],
                                 [text |-> " Next  Events ", href |-> Href(to)]>>]
        ELSE [nav |-> <<Href(to)>>, anchors |-> <<[text |-> "Next Events", href |-> "/venue/"]>>]
      Page(i) ==
        [links |-> Links(IF i < site.len THEN i + 1 ELSE site.back),
         els |-> <<[name |-> "h3", text |-> "March 2027", link |-> FALSE, href |-> "", lines |-> <<>>],
                   [name |-> "h4", text |-> "Signing", link |-> TRUE,
                    href |-> "/event/signing-" \o Decimal(i) \o "/",
                    lines |-> <<"Signing",
                                "Featured March " \o Decimal(site.len + 1 - i) \o " @ 4:00 pm - 6:00 pm">>]>>]
      found == { i \in 1..site.len : PageUrl(i) = url /\ i # site.down }
  IN  IF found = {} THEN <<>> ELSE <<Page(CHOOSE i \in found : TRUE)>>

ScrapeInit ==
  /\ prog = "scrape"
  /\ pc = "loop"
  /\ events_csv = CsvFile(<<>>)
  /\ auto_csv = MissingFile
  /\ MergeIdle
  /\ \E site \in Sites :
       /\ site.back <= site.len
       /\ site.down <= site.len
       /\ rows_in = <<site>>
  /\ rows_uniq = <<>>
  /\ rows_out = <<>>
  /\ text = START_URL
  /\ today = Today
  /\ window_end = Today
  /\ parsed = [at |-> 0, nxt |-> <<>>]

\* One pass of the loop of scrape, lines 213-225: the page at url is
\* fetched, its events are added, its next link is looked for; without one
\* the loop is left and scrape sorts and returns.  The exception of _get or
\* of _extract_events_from_page ends scrape.
ScrapeFetch ==
  /\ prog = "scrape"
  /\ pc = "loop"
  /\ ScrapeLoops(parsed.at, text, { rows_uniq[i] : i \in 1..Len(rows_uniq) })
  /\ rows_uniq' = Append(rows_uniq, text)
  /\ \E got \in {PageAt(rows_in[1], text)} :
       \E found \in {IF got = <<>> THEN [raised |-> TRUE, events |-> <<>>]
                      ELSE _extract_events_from_page(got[1].els, today.year)},
          nxt \in {IF got = <<>> THEN <<>> ELSE _find_next_link(got[1].links)} :
         IF found.raised
         THEN /\ pc' = "raised"
              /\ UNCHANGED <<rows_out, text>>
              /\ parsed' = [at |-> parsed.at + 1, nxt |-> <<>>]
         ELSE /\ parsed' = [at |-> parsed.at + 1, nxt |-> nxt]
              /\ IF nxt = <<>>
                 THEN /\ rows_out' = mission_sort(rows_out \o found.events)
                      /\ pc' = "done"
                      /\ text' = text
                 ELSE /\ rows_out' = rows_out \o found.events
                      /\ pc' = "loop"
                      /\ text' = nxt[1]
  /\ UNCHANGED <<prog, mergeVars, rows_in, today, window_end>>

\* scrape, lines 213-215 and 227-229: the range is spent or url has been
\* seen; scrape sorts and returns
ScrapeReturn ==
  /\ prog = "scrape"
  /\ pc = "loop"
  /\ ~ScrapeLoops(parsed.at, text, { rows_uniq[i] : i \in 1..Len(rows_uniq) })
  /\ rows_out' = mission_sort(rows_out)
  /\ pc' = "done"
  /\ UNCHANGED <<prog, mergeVars, rows_in, rows_uniq, text, today, window_end, parsed>>

ScrapeNext ==
  \/ ScrapeFetch
  \/ ScrapeReturn

SpecScrape == ScrapeInit /\ [][ScrapeNext]_vars

\* The process runs scrape on until it returns or raises: weak fairness of
\* ScrapeNext, with ENABLED <<ScrapeNext>>_vars written out.  In the loop one
\* of ScrapeFetch and ScrapeReturn can be taken, whichever ScrapeLoops decides,
\* and each changes parsed.at or pc; out of the loop neither can.
ScrapeFair == []<>(pc # "loop") \/ []<><<ScrapeNext>>_vars

SpecScrapeFair == SpecScrape /\ ScrapeFair

(***************************************************************************)
(* Properties of the merge and of the de-duplicators                       *)
(***************************************************************************)

\* A finished run of merge_csv.main, its variables still at hand
MergeDone == prog = "merge" /\ pc = "done"

\* merge_csv.main has just left its loop and its sort
MergeSorted == prog = "merge" /\ pc = "open"

\* A row as fetch_sketchboard_drinkdraw.py writes it
IsSketchboardImport(r) == \E i \in 1..Len(URLS) : r.notes = "Auto-imported from " \o URLS[i]

InTable(r, rows) == \E j \in 1..Len(rows) : rows[j] = r

\* C1: after a run of merge_csv.main, a row of the earlier events.csv that
\* came from the Sketchboard batch (notes "Auto-imported from <url>") is in
\* the result only if the batch now read has a row of the same key; with an
\* empty or missing batch no such row is left.
C1_MergeReplacement ==
  MergeDone =>
    \A i \in 1..Len(started.rows) :
      (IsSketchboardImport(started.rows[i]) /\ InTable(started.rows[i], events_csv.rows))
        => \E k \in 1..Len(read_csv(auto_csv)) :
             key(read_csv(auto_csv)[k]) = key(started.rows[i])

SameRows(f, g) ==
  /\ f.exists = g.exists
  /\ f.header = g.header
  /\ Len(f.rows) = Len(g.rows)
  /\ { f.rows[i] : i \in 1..Len(f.rows) } = { g.rows[i] : i \in 1..Len(g.rows) }

\* The batch has no row with the marker of is_sketchboard_auto, or only such rows
BatchUniform(rows) ==
  \A i, j \in 1..Len(rows) : is_sketchboard_auto(rows[i]) = is_sketchboard_auto(rows[j])

MasterKey(r) == <<r.date, Lower(r.title), Lower(r.venue), r.start_time, Lower(r.category)>>

\* C3: no two rows of the events.csv a merge has written agree on (date,
\* lowercase title, lowercase venue, start_time, lowercase category).
C3_UniqueKeys ==
  MergeDone =>
    \A i, j \in 1..Len(events_csv.rows) :
      i < j => MasterKey(events_csv.rows[i]) # MasterKey(events_csv.rows[j])

C3_Witness ==
  /\ MergeDone
  /\ Len(events_csv.rows) = 2
  /\ Len(merged) = 4
  /\ \E i, j \in 1..Len(merged) :
       /\ i < j
       /\ merged[i] # merged[j]
       /\ MasterKey(merged[i]) = MasterKey(merged[j])

\* The day number and the minute of day a date and a time text denote
DateNumber(d) ==
  ParseInt(SubSeq(d, 1, 4)) * 10000 + ParseInt(SubSeq(d, 6, 7)) * 100 + ParseInt(SubSeq(d, 9, 10))

MinuteOfDay(t) ==
  LET colon == CHOOSE i \in 1..Len(t) : CharAt(t, i) = ":"
  IN  ParseInt(SubSeq(t, 1, colon - 1)) * 60 + ParseInt(SubSeq(t, colon + 1, Len(t)))

\* a is on a later date than b, or on the same date at a later start time
StartsLater(a, b) ==
  \/ DateNumber(a.date) > DateNumber(b.date)
  \/ /\ a.date = b.date
     /\ a.start_time # ""
     /\ b.start_time # ""
     /\ MinuteOfDay(a.start_time) > MinuteOfDay(b.start_time)

\* C4: the rows a merge has written ascend by (date, start_time, venue,
\* title), and no row precedes one of an earlier date, or of an earlier start
\* time on the same date.
C4_SortedChronological ==
  MergeDone =>
    \A i, j \in 1..Len(events_csv.rows) :
      i < j =>
        /\ ~TupleLess(MergeSortKey(events_csv.rows[j]), MergeSortKey(events_csv.rows[i]))
        /\ ~StartsLater(events_csv.rows[i], events_csv.rows[j])

\* C5: whenever events.csv is read, it holds the complete table from before
\* the run of merge_csv.main or the complete table the run writes.
C5_AtomicWrite ==
  \/ events_csv = started
  \/ prog = "merge" /\ pc # "idle" /\ events_csv = write_csv(uniq)

\* Two records that are the same but for the casing of their titles
DifferInTitleCase(a, b) ==
  /\ a.title # b.title
  /\ Lower(a.title) = Lower(b.title)
  /\ [a EXCEPT !.title = ""] = [b EXCEPT !.title = ""]

\* Of two such records anywhere in the input at most one survives, and of an
\* input of just the two exactly one.
OneCasingSurvives(input, output) ==
  /\ \A i, j \in 1..Len(input) :
       DifferInTitleCase(input[i], input[j]) => ~(InTable(input[i], output) /\ InTable(input[j], output))
  /\ (Len(input) = 2 /\ DifferInTitleCase(input[1], input[2]))
       => (Len(output) = 1 /\ InTable(output[1], input))

\* C6: of two records identical except for the casing of title exactly one
\* survives the de-duplication of merge_csv.main, of the Sketchboard
\* scraper and of the Case scraper.
C6_TitleCaseDedup ==
  /\ MergeSorted => OneCasingSurvives(merged, uniq)
  /\ (prog \in {"sketchboard", "case"} /\ pc = "done") => OneCasingSurvives(rows_in, rows_out)

C6_Witness ==
  /\ prog = "sketchboard"
  /\ pc = "done"
  /\ Len(rows_in) = 2
  /\ DifferInTitleCase(rows_in[1], rows_in[2])
  /\ rows_out = <<rows_in[1]>>

\* The records that are the first of their key, in the order of the input
FirstOccurrences(input, K(_)) ==
  LET keys == [ i \in 1..Len(input) |-> K(input[i]) ]
      I == { i \in 1..Len(input) : \A j \in 1..(i - 1) : keys[j] # keys[i] }
      nth == [ n \in 1..Cardinality(I) |-> CHOOSE i \in I : Cardinality({ j \in I : j < i }) = n - 1 ]
  IN  [ n \in 1..Cardinality(I) |-> input[nth[n]] ]

\* a and b hold the same records, each as often
IsPermutation(a, b) ==
  /\ Len(a) = Len(b)
  /\ \A i \in 1..Len(a) :
       Cardinality({ j \in 1..Len(a) : a[j] = a[i] }) = Cardinality({ j \in 1..Len(b) : b[j] = a[i] })

\* C7: each de-duplicator's list before its sort is the input's first
\* occurrences per key, unaltered and in input order, and what it hands on
\* after the sort is those same records.
C7_FirstOccurrences ==
  /\ MergeSorted =>
       /\ uniq_seen = FirstOccurrences(merged, key)
       /\ IsPermutation(uniq, uniq_seen)
  /\ (prog = "sketchboard" /\ pc = "done") =>
       /\ rows_uniq = FirstOccurrences(rows_in, sb_key)
       /\ IsPermutation(rows_out, rows_uniq)
  /\ (prog = "case" /\ pc = "done") =>
       /\ rows_uniq = FirstOccurrences(rows_in, case_key)
       /\ IsPermutation(rows_out, rows_uniq)

C7_Witness ==
  /\ prog = "case"
  /\ pc = "done"
  /\ Len(rows_in) = 3
  /\ rows_in[2] # rows_in[1]
  /\ case_key(rows_in[2]) = case_key(rows_in[1])
  /\ rows_uniq = <<rows_in[1], rows_in[3]>>

(***************************************************************************)
(* Properties of parse_date_any                                            *)
(***************************************************************************)

\* A call of parse_date_any has ended
DateDone == prog = "date" /\ pc = "done"

\* What each grammar alone comes to on the text, in the order ISO, weekday
\* with month, day and year, month with day and year, month with day
GrammarOutcomes ==
  <<TryIso(SingleSpaced(text)), TryWeekday(SingleSpaced(text)),
    TryMonthDayYear(SingleSpaced(text)), TryMonthDay(SingleSpaced(text), today)>>

\* C8: parse_date_any ends with the outcome of the first grammar, in the
\* order ISO, weekday form, month day year, month day, that yields a date on
\* the text (its pattern is found and its month word is a month), having
\* searched the patterns up to that grammar and none after it; when no
\* grammar yields a date it has searched all four and returns "".
C8_FirstGrammarWins ==
  DateDone =>
    LET outs == GrammarOutcomes
        hits == { k \in 1..4 : ~outs[k].fell }
    IN  IF hits = {} THEN parsed = Ended(Returned(""), 0, 1..4)
        ELSE \E k \in hits :
               /\ \A j \in hits : k <= j
               /\ parsed = Ended(outs[k], k, 1..k)

C8_Witness ==
  /\ DateDone
  /\ ~GrammarOutcomes[1].fell
  /\ ~GrammarOutcomes[3].fell
  /\ GrammarOutcomes[1].returned # GrammarOutcomes[3].returned
  /\ parsed.returned = GrammarOutcomes[1].returned
  /\ parsed.searched = {1}

\* s is YYYY-MM-DD and names a day of the calendar
IsIsoDate(s) ==
  /\ Len(s) = 10
  /\ IsDigits(SubSeq(s, 1, 4))
  /\ CharAt(s, 5) = "-"
  /\ IsDigits(SubSeq(s, 6, 7))
  /\ CharAt(s, 8) = "-"
  /\ IsDigits(SubSeq(s, 9, 10))
  /\ ValidDate(ParseInt(SubSeq(s, 1, 4)), ParseInt(SubSeq(s, 6, 7)), ParseInt(SubSeq(s, 9, 10)))

\* C9: parse_date_any returns every valid ISO date string as it was given.
C9_IsoRoundTrip == (DateDone /\ IsIsoDate(text)) => parsed.returned = text

\* C9 as amended: parse_date_any returns every valid ISO date string of the
\* years 2000 to 2099 as it was given.
C9_IsoRoundTripFrom2000 ==
  (DateDone /\ IsIsoDate(text) /\ SubSeq(text, 1, 2) = "20") =>
    (~parsed.raised /\ parsed.returned = text)

C9_Witness ==
  /\ DateDone
  /\ IsIsoDate(text)
  /\ SubSeq(text, 6, 10) = "02-29"
  /\ parsed.grammar = 1
  /\ parsed.returned = text

\* The days from month m, day d of today's year up to today, counted on the
\* calendar: 0 when that day is today or still to come
DaysPast(m, d) ==
  Cardinality({ md \in (1..12) \X (1..31) :
                  /\ ValidDate(today.year, md[1], md[2])
                  /\ ~(md[1] < m \/ (md[1] = m /\ md[2] < d))
                  /\ md[1] < today.month \/ (md[1] = today.month /\ md[2] < today.day) })

\* C10: for a text "Month D" naming a day of today's year, parse_date_any
\* returns that day in the next year when it lies more than 270 days before
\* today, and in today's year otherwise.
C10_YearInference ==
  DateDone =>
    \A m \in 1..12, d \in 1..31 :
      (text = MonthDayText(m, d) /\ ValidDate(today.year, m, d)) =>
         /\ ~parsed.raised
         /\ parsed.returned =
              IsoText(IF DaysPast(m, d) > 270 THEN today.year + 1 ELSE today.year, m, d)

C10_Witness ==
  /\ DateDone
  /\ \E m \in 1..12, d \in 1..31 :
       /\ text = MonthDayText(m, d)
       /\ ValidDate(today.year, m, d)
       /\ DaysPast(m, d) = 271
       /\ parsed.returned = IsoText(today.year + 1, m, d)

\* A str of the form YYYY-MM-DD
IsIsoShaped(s) ==
  /\ Len(s) = 10
  /\ IsDigits(SubSeq(s, 1, 4))
  /\ CharAt(s, 5) = "-"
  /\ IsDigits(SubSeq(s, 6, 7))
  /\ CharAt(s, 8) = "-"
  /\ IsDigits(SubSeq(s, 9, 10))

\* C11: parse_date_any never raises: every call returns a str of the form
\* YYYY-MM-DD or the empty str, also on a text whose month and day match a
\* grammar and name no day of the calendar.
C11_NeverRaises ==
  DateDone => (~parsed.raised /\ (parsed.returned = "" \/ IsIsoShaped(parsed.returned)))

(***************************************************************************)
(* Properties of the rows the scrapers emit                                *)
(***************************************************************************)

ScraperDone == prog \in {"sketchboard", "case", "syzygy"} /\ pc = "done"

\* C12: every row a scraper emits has a non-empty date and a non-empty
\* title; a card whose title comes out empty is discarded.
C12_RequiredFields ==
  ScraperDone =>
    \A i \in 1..Len(rows_out) : rows_out[i].date # "" /\ rows_out[i].title # ""

(***************************************************************************)
(* Properties of the time range parsers                                    *)
(***************************************************************************)

TimesDone == prog = "times" /\ pc = "done"

\* A time as it is written in a range: the hour, and the minutes if any
\* (mm = -1 for none)
ClockText(h, mm) == IF mm < 0 THEN Decimal(h) ELSE Decimal(h) \o ":" \o TwoDigits(mm)

WrittenMinutes == {-1, 30, 45}

\* The hour h of a 12 hour clock under a meridiem, on the 24 hour clock
Shifted(h, ap) == IF ap = "pm" THEN (IF h = 12 THEN 12 ELSE h + 12) ELSE (IF h = 12 THEN 0 ELSE h)

HHMM(h, mm) == TwoDigits(h) \o ":" \o TwoDigits(IF mm < 0 THEN 0 ELSE mm)

\* C13: for a range of 12 hour times whose only meridiem follows the end
\* time, parse_time_range of scrape_syzygy.py and _parse_time_range of
\* scrape_arch.py both put the start and the end under that meridiem.
C13_SharedMeridiem ==
  (TimesDone /\ parsed.by \in {"syzygy", "arch"}) =>
    \A sh \in 1..12, eh \in 1..12, sm \in WrittenMinutes, em \in WrittenMinutes, ap \in {"am", "pm"} :
      text = ClockText(sh, sm) \o "-" \o ClockText(eh, em) \o ap =>
        /\ ~parsed.raised
        /\ parsed.times = <<HHMM(Shifted(sh, ap), sm), HHMM(Shifted(eh, ap), em)>>

C13_Witness ==
  /\ TimesDone
  /\ parsed.by = "arch"
  /\ text = "6:30-8:30pm"
  /\ parsed.times = <<"18:30", "20:30">>

\* The hour of an "HH:MM"
HourOf(hhmm) == ParseInt(SubSeq(hhmm, 1, 2))

\* A range "S-Epm" of whole hours
PmRange(s, e) == Decimal(s) \o "-" \o Decimal(e) \o "pm"

\* C14 as stated: for every range of hours 1..12 sharing a trailing "pm",
\* the parsed end hour is at least the parsed start hour.
C14_EndNotBeforeStart ==
  (TimesDone /\ parsed.by \in {"syzygy", "arch"}) =>
    \A s \in 1..12, e \in 1..12 :
      text = PmRange(s, e) => HourOf(parsed.times[2]) >= HourOf(parsed.times[1])

\* C14: for a range of hours 1..12 sharing a trailing "pm", the parsed end
\* hour is at least the parsed start hour exactly when the written start is
\* 12, or the written end is not 12 and not less than the written start.
C14_EndNotBeforeStartUnlessNoon ==
  (TimesDone /\ parsed.by \in {"syzygy", "arch"}) =>
    \A s \in 1..12, e \in 1..12 :
      text = PmRange(s, e) =>
        (HourOf(parsed.times[2]) >= HourOf(parsed.times[1])) = (s = 12 \/ (e # 12 /\ s <= e))

C14_Witness ==
  /\ TimesDone
  /\ parsed.by = "syzygy"
  /\ text = "12-1pm"
  /\ parsed.times = <<"12:00", "13:00">>

\* C15: the time range parser of scrape_arch.py never raises and never
\* blocks the row: for every times text the row of the date line is
\* appended with its date, its start_time and end_time empty when the
\* meridiem of the end time cannot be determined.
C15_TimesNeverBlock ==
  (TimesDone /\ parsed.by = "arch") =>
    /\ ~parsed.raised
    /\ Len(parsed.events) = 1
    /\ parsed.events[1].date # ""

\* "HH:MM" with HH in 00..23 and MM in 00..59
IsHHMM(s) ==
  /\ Len(s) = 5
  /\ IsDigits(SubSeq(s, 1, 2))
  /\ CharAt(s, 3) = ":"
  /\ IsDigits(SubSeq(s, 4, 5))
  /\ ParseInt(SubSeq(s, 1, 2)) <= 23
  /\ ParseInt(SubSeq(s, 4, 5)) <= 59

\* C16: every start_time and end_time the time range parsers produce is
\* empty or a zero padded "HH:MM" of the 24 hour clock.
C16_TimesWellFormed ==
  TimesDone =>
    \A k \in 1..2 : parsed.times[k] = "" \/ IsHHMM(parsed.times[k])

(***************************************************************************)
(* Properties of expand_rule_to_dates and of its caller                    *)
(***************************************************************************)

RuleDone == prog = "rule" /\ pc = "done"

\* The days d with window_start <= d < window_end
WindowDays ==
  { AddDays(today, k) : k \in 0..(ToOrdinal(window_end) - ToOrdinal(today) - 1) }

WeekdayNames == <<"monday", "tuesday", "wednesday", "thursday", "friday", "saturday", "sunday">>

\* The day of the week of d, counted from a known Monday, 1 January 2024
WeekdayName(d) == WeekdayNames[((ToOrdinal(d) - ToOrdinal(Day(2024, 1, 1))) % 7) + 1]

\* dates lists the days of the set days, each once, in ascending order
AscendingListOf(dates, days) ==
  /\ Len(dates) = Cardinality(days)
  /\ \A i \in 1..Len(dates) : dates[i] \in days
  /\ \A i \in 1..(Len(dates) - 1) : ToOrdinal(dates[i]) < ToOrdinal(dates[i + 1])

\* C17: for a rule "Every <weekday>" with no ordinal and no "month",
\* expand_rule_to_dates returns exactly the days of the window that fall on
\* that weekday, in ascending order.
C17_EveryWeekday ==
  RuleDone =>
    \A w \in 1..7 :
      Lower(Strip(text)) \in {"every " \o WeekdayNames[w], "every " \o WeekdayNames[w] \o ", 7-10pm"} =>
        AscendingListOf(parsed, { d \in WindowDays : WeekdayName(d) = WeekdayNames[w] })

C17_Witness ==
  /\ RuleDone
  /\ text = "Every Monday"
  /\ today = Day(2024, 1, 1)
  /\ window_end = Day(2024, 2, 1)
  /\ parsed = <<Day(2024, 1, 1), Day(2024, 1, 8), Day(2024, 1, 15), Day(2024, 1, 22), Day(2024, 1, 29)>>

OrdinalWords == <<{"1st", "first"}, {"2nd", "second"}, {"3rd", "third"}, {"4th", "fourth"}>>

\* d is the n-th day of its weekday in its month
IsNthOfMonth(d, n) == d.day >= 7 * (n - 1) + 1 /\ d.day <= 7 * n

\* C18: for a rule "<ordinal> <weekday>", expand_rule_to_dates returns
\* exactly the days of the window that are the n-th day of that weekday in
\* their month, in ascending order: at most one a month.
C18_NthWeekday ==
  RuleDone =>
    \A n \in 1..4, w \in 1..7 :
      (\E o \in OrdinalWords[n] : Lower(Strip(text)) = o \o " " \o WeekdayNames[w]) =>
        AscendingListOf(parsed, { d \in WindowDays :
                                    WeekdayName(d) = WeekdayNames[w] /\ IsNthOfMonth(d, n) })

C18_Witness ==
  /\ RuleDone
  /\ text = "First Monday"
  /\ today = Day(2026, 12, 20)
  /\ window_end = AddDays(today, 90)
  /\ parsed = <<Day(2027, 1, 4), Day(2027, 2, 1), Day(2027, 3, 1)>>

\* C19: for every rule containing "every other <weekday>" and every window,
\* expand_rule_to_dates returns the empty sequence, whatever else the rule
\* says.
C19_EveryOtherIsEmpty ==
  RuleDone =>
    ((\E w \in 1..7 : Contains("every other " \o WeekdayNames[w], Lower(text))) => parsed = <<>>)

C19_Witness ==
  /\ RuleDone
  /\ text = "2nd and 4th every other Friday"
  /\ today = Day(2026, 11, 1)
  /\ window_end = AddDays(today, 90)
  /\ parsed = <<>>

SyzygyDone == prog = "syzygy" /\ pc = "done"

\* The rows scrape_syzygy returns for the links of a page
Scraped(links) ==
  scrape_syzygy(SelectSeq(links, LAMBDA a : a.section = "special"),
                SelectSeq(links, LAMBDA a : a.section = "recurring"), today).events

\* A recurring card whose rule is "every other <weekday>"
IsEveryOtherCard(a) ==
  /\ a.section = "recurring"
  /\ \E w \in 1..7 : Contains("every other " \o WeekdayNames[w], Lower(a.text))

\* C20: a recurring card whose rule is "every other <weekday>" is surfaced
\* as not expandable: what the run puts out differs from what it puts out
\* for the page without that card.
C20_NotExpandableSurfaced ==
  SyzygyDone =>
    \A i \in 1..Len(rows_in) :
      IsEveryOtherCard(rows_in[i]) =>
        rows_out # Scraped(SubSeq(rows_in, 1, i - 1) \o SubSeq(rows_in, i + 1, Len(rows_in)))


(***************************************************************************)
(* Properties of the classifiers                                           *)
(***************************************************************************)

\* A finished call of a classifier on a title and a text
Classified == prog = "classify" /\ pc = "done"

\* The title or the text has a keyword of the Figure Drawing category of
\* the classifier named by
FigureKeyword(by, title, block) ==
  CASE by = "sketchboard" ->
         \/ \E term \in {"figure drawing", "life drawing", "figure session", "model session",
                         "open studio (figure)", "open studio figure", "gesture drawing"} :
              Contains(term, Lower(title)) \/ Contains(term, Lower(block))
         \/ Contains("figure", Lower(title)) /\ Contains("drawing", Lower(title))
    [] OTHER -> Contains("figure", Lower(title))

\* The title or the text has the keywords of the Drink & Draw category
DrinkKeywords(by, title, block) ==
  CASE by = "sketchboard" ->
         \/ Contains("drink", Lower(title)) /\ Contains("draw", Lower(title))
         \/ Contains("drink", Lower(block)) /\ Contains("draw", Lower(block))
         \/ Contains("madrone", Lower(title))
         \/ Contains("madrone", Lower(block))
    [] by = "minna" ->
         /\ Contains("drink", Lower(title))
         /\ Contains("draw", Lower(title)) \/ Contains("sketch", Lower(title))
    [] OTHER -> Contains("drink", Lower(title)) /\ Contains("draw", Lower(title))

\* C21: classify_event and the two guess_category functions give "Figure
\* Drawing" whenever a Figure Drawing keyword and the Drink & Draw keywords
\* are both present, and give "Drink & Draw" only when no Figure Drawing
\* keyword is present.
C21_FigureBeforeDrink ==
  (Classified /\ parsed.by \in {"sketchboard", "case", "minna"}) =>
    /\ (FigureKeyword(parsed.by, text, rows_in[1]) /\ DrinkKeywords(parsed.by, text, rows_in[1]))
         => parsed.category = <<"Figure Drawing">>
    /\ parsed.category = <<"Drink & Draw">> => ~FigureKeyword(parsed.by, text, rows_in[1])

C21_Witness ==
  /\ Classified
  /\ parsed.by = "sketchboard"
  /\ text = "Figure drawing"
  /\ rows_in = <<" drink and draw at the bar">>
  /\ parsed.category = <<"Figure Drawing">>


\* The labels of the three classifiers that always answer, the fallback last
Labels(by) ==
  CASE by = "case" -> {"Figure Drawing", "Drink & Draw", "Zine", "Workshop"}
    [] by = "minna" -> {"Figure Drawing", "Drink & Draw", "Drawing", "Opening", "Exhibition",
                        "Music", "111 Minna"}
    [] by = "missioncomics" -> {"Signing", "Party", "Workshop", "Zine", "Comics"}
    [] by = "sketchboard" -> {"Figure Drawing", "Drink & Draw"}

\* C22 as stated: every call of a classifier returns a category, never none.
C22_Total == Classified => parsed.category # <<>>

\* C22: guess_category of scrape_case and of scrape_minna and _infer_category
\* return one of their labels for every title and text; classify_event
\* returns a label when a keyword of one of its two categories is present
\* and None when none is, and scrape_url then appends no dict.
C22_TotalButClassifyEvent ==
  Classified =>
    /\ parsed.category # <<>> => parsed.category[1] \in Labels(parsed.by)
    /\ parsed.by # "sketchboard" => parsed.category # <<>>
    /\ parsed.by = "sketchboard" =>
         /\ parsed.category = <<>> <=>
              /\ ~FigureKeyword("sketchboard", text, rows_in[1])
              /\ ~DrinkKeywords("sketchboard", text, rows_in[1])
         /\ rows_out = <<>> <=> parsed.category = <<>>

C22_Witness ==
  /\ Classified
  /\ parsed.by = "sketchboard"
  /\ text = "Zine Opening"
  /\ rows_in = <<"Tickets at the door">>
  /\ parsed.category = <<>>
  /\ rows_out = <<>>


\* A finished call of a classifier on the categories a page or an item lists
Categorised == prog = "categories" /\ pc = "done"

\* The labels _choose_category and first_category name, the fallback last
ListedLabels(by) ==
  CASE by = "comix" -> {"Signings", "Graphic Novel Club", "Party", "Free Comic Book Day",
                        "Live Stream", "Comics"}
    [] by = "sketchboard_feed" -> {"Sketchboard"}

\* C23: the category of every dict a scraper appends is one of the labels
\* its classifier names or its fallback, never a text of the page or feed.
C23_EnumeratedOnly ==
  /\ Classified => \A n \in 1..Len(rows_out) : rows_out[n].category \in Labels(parsed.by)
  /\ Categorised => \A n \in 1..Len(rows_out) : rows_out[n].category \in ListedLabels(parsed.by)


(***************************************************************************)
(* Properties of the runs over several pages                               *)
(***************************************************************************)

\* A run of a scraper's main over its pages has ended
RunEnded == prog \in {"sketchboard_run", "case_run"} /\ pc \in {"done", "raised"}

\* The events of the pages of a run that did not fail, in page order
Healthy(pages) ==
  IF Len(pages) = 0 THEN <<>>
  ELSE IF Len(pages) = 1 THEN (IF pages[1].raised THEN <<>> ELSE pages[1].events)
  ELSE (IF pages[1].raised THEN <<>> ELSE pages[1].events)
       \o (IF pages[2].raised THEN <<>> ELSE pages[2].events)

\* C24: a page that fails contributes no record, every other page is still
\* processed and the run writes its output: no exception of one page ends
\* main.
C24_FailureIsolated ==
  RunEnded =>
    /\ pc = "done"
    /\ parsed.written
    /\ rows_out = IF prog = "sketchboard_run" THEN sb_dedupe(Healthy(rows_in))
                  ELSE case_dedupe(Healthy(rows_in))


\* C25: for a rule "5th <weekday>" expand_rule_to_dates returns exactly the
\* fifth days of that weekday that exist in the months of the window,
\* omitting the months that have none; and nth_weekday_of_month returns
\* None exactly when the first such weekday plus 7 * (n - 1) days is in
\* another month.
C25_FifthWeekday ==
  /\ RuleDone =>
       \A w \in 1..7 :
         Lower(Strip(text)) \in {"5th " \o WeekdayNames[w], "fifth " \o WeekdayNames[w]} =>
           AscendingListOf(parsed, { d \in WindowDays :
                                       WeekdayName(d) = WeekdayNames[w] /\ IsNthOfMonth(d, 5) })
  /\ RuleDone =>
       \A w \in 0..6, n \in 1..5 :
         nth_weekday_of_month(today.year, today.month, w, n) = <<>>
           <=> AddDays(next_weekday_on_or_after(Day(today.year, today.month, 1), w),
                       7 * (n - 1)).month # today.month


(***************************************************************************)
(* Properties of the pages with month headers                               *)
(***************************************************************************)

Walking == prog \in {"minna", "missioncomics"}

\* Whether element i of the page is a 'Month YYYY' header to its walker
IsHeader(i) ==
  IF prog = "minna" THEN MonthYearHeader(rows_in[i].text) # <<>>
  ELSE rows_in[i].name = "h3" /\ MonthYearHeader(SingleSpaced(rows_in[i].text)) # <<>>

\* The year of the last header before element i, the current year when no
\* header precedes it
YearBefore(i) ==
  LET before == { j \in 1..(i - 1) : IsHeader(j) }
      last == CHOOSE j \in before : \A k \in before : k <= j
  IN  IF before = {} THEN today.year
      ELSE IF prog = "minna" THEN MonthYearHeader(rows_in[last].text)[2]
      ELSE MonthYearHeader(SingleSpaced(rows_in[last].text))[2]

\* The event of element i, dated in the year y: <<>> when it is no event
EventIn(i, y) ==
  IF prog = "minna" THEN minna_element(rows_in[i], y, today.year).row
  ELSE mission_element(rows_in[i], <<y>>, today.year).row

RECURSIVE EventsBefore(_)
\* The events of the elements before position n, each in the year of the
\* last header before it
EventsBefore(n) ==
  IF n <= 1 THEN <<>> ELSE EventsBefore(n - 1) \o EventIn(n - 1, YearBefore(n - 1))

\* C26: header tracking is a fold in document order.  At every point of the
\* walk the events collected are those of the elements passed, each dated in
\* the year of the most recent 'Month YYYY' header before it, or in the
\* current year when no header precedes it; what is written holds only such
\* events; and a step of the walk, a header included, leaves the events
\* already collected as they are.
C26_HeaderFold ==
  /\ [](Walking =>
          /\ rows_uniq = EventsBefore(parsed.at)
          /\ \A i \in 1..Len(rows_out) : \E j \in 1..Len(rows_uniq) : rows_out[i] = rows_uniq[j])
  /\ [][Walking =>
          /\ Len(rows_uniq') >= Len(rows_uniq)
          /\ SubSeq(rows_uniq', 1, Len(rows_uniq)) = rows_uniq]_vars

\* Two headers of different years, neither the current one, were walked
\* before an event, and the event was written in the year of the second
C26_Witness ==
  /\ Walking
  /\ pc = "done"
  /\ Len(rows_in) = 3
  /\ IsHeader(1) /\ IsHeader(2)
  /\ YearBefore(2) # YearBefore(3)
  /\ today.year \notin {YearBefore(2), YearBefore(3)}
  /\ EventIn(3, YearBefore(3)) # <<>>
  /\ rows_out = EventIn(3, YearBefore(3))
  /\ rows_out # EventIn(3, YearBefore(2))


(***************************************************************************)
(* The rows a merge does not own                                            *)
(***************************************************************************)

\* C27: after a run of merge_csv.main, for every row of the events.csv it
\* read that is not tagged as a Sketchboard auto-import, the events.csv it
\* wrote holds a row of the same key with the same value in every column.
C27_OtherRowsKept ==
  MergeDone =>
    \A i \in 1..Len(read_csv(started)) :
      ~is_sketchboard_auto(read_csv(started)[i]) =>
        \E j \in 1..Len(events_csv.rows) :
          /\ key(events_csv.rows[j]) = key(started.rows[i])
          /\ events_csv.rows[j] = started.rows[i]

\* C27 as amended: after a run of merge_csv.main, every row of the
\* events.csv it read that is not tagged as a Sketchboard auto-import and is
\* the first such row of its key is in the events.csv it wrote, with the
\* values read_csv gave it (each cell stripped), and is the only row of its
\* key there: no later row of the table and no row of the batch replaces it.
C27_FirstOfKeyKept ==
  MergeDone =>
    LET rows == read_csv(started)
    IN  \A i \in 1..Len(rows) :
          (/\ ~is_sketchboard_auto(rows[i])
           /\ \A h \in 1..(i - 1) : is_sketchboard_auto(rows[h]) \/ key(rows[h]) # key(rows[i]))
            => /\ InTable(rows[i], events_csv.rows)
               /\ \A j \in 1..Len(events_csv.rows) :
                    key(events_csv.rows[j]) = key(rows[i]) => events_csv.rows[j] = rows[i]

\* A merge is done whose batch held a row with the key of an untagged row of
\* the table and other values, and the row of the table is the one written
C27_Witness ==
  /\ MergeDone
  /\ \E i \in 1..Len(read_csv(started)) :
       /\ ~is_sketchboard_auto(read_csv(started)[i])
       /\ \E k \in (Len(Cleaned(read_csv(started))) + 1)..Len(merged) :
            /\ key(merged[k]) = key(read_csv(started)[i])
            /\ merged[k] # read_csv(started)[i]
       /\ InTable(read_csv(started)[i], events_csv.rows)


\* C28: every non-empty str parse_date_any returns names a day of the
\* calendar: a month in 1..12 and a day that month of that year has, whichever
\* grammar produced it.
C28_RealDate ==
  (DateDone /\ ~parsed.raised /\ parsed.returned # "") => IsIsoDate(parsed.returned)


\* The text holds, somewhere, a word MONTHS or MONTHS_ABBR knows followed by
\* a day number of one or two digits
HasMonthAndDay(t) ==
  \E i \in 1..Len(t) :
    /\ WordBoundary(t, i)
    /\ LettersEnd(t, i) > i
    /\ MonthNumber(Lower(SubSeq(t, i, LettersEnd(t, i) - 1))) # 0
    /\ SkipSpaces(t, LettersEnd(t, i)) > LettersEnd(t, i)
    /\ DayBoundaryDigits(t, SkipSpaces(t, LettersEnd(t, i))) > 0

\* C29: on a text that holds a month name followed by a day number,
\* parse_date_any, whenever it returns, returns a date and not "": also when a
\* word with a number that is no month ("Room 12") stands before the date.
C29_MonthDayFound ==
  (DateDone /\ ~parsed.raised /\ HasMonthAndDay(text)) => parsed.returned # ""


(***************************************************************************)
(* Properties of the pagination of scrape_missioncomics                     *)
(***************************************************************************)

Scraping == prog = "scrape"

\* C30: the pagination loop of scrape always ends, by a return or by the
\* exception of a request; it fetches at most 10 pages and no address twice,
\* a next link to a page already fetched ending the loop without a fetch;
\* and the fetch of a page without a next link is its last.
C30_PaginationEnds ==
  /\ [](Scraping =>
          /\ Len(rows_uniq) <= 10
          /\ \A i, j \in 1..Len(rows_uniq) : i < j => rows_uniq[i] # rows_uniq[j])
  /\ [][(Scraping /\ rows_uniq' # rows_uniq /\ PageAt(rows_in[1], text) # <<>>
           /\ _find_next_link(PageAt(rows_in[1], text)[1].links) = <<>>) => pc' = "done"]_vars
  /\ [][(Scraping /\ pc \in {"done", "raised"}) => rows_uniq' = rows_uniq]_vars
  /\ (Scraping => <>(pc \in {"done", "raised"}))

\* scrape has returned from a site of more than 10 pages in a row, having
\* fetched the first 10
C30_Witness ==
  /\ Scraping
  /\ pc = "done"
  /\ rows_in[1].len > 10
  /\ Len(rows_uniq) = 10
  /\ Len(rows_out) = 10
  /\ parsed.nxt = <<PageUrl(11)>>

=============================================================================
